---------------------------- MODULE Spec2Model ----------------------------
(***************************************************************************)
(* Model of the 4sale jobs/others scraper.                                 *)
(*                                                                         *)
(*   Spec         one run of JobsMainScraper.scrape_all_jobs (the same     *)
(*                code as OthersMainScraper.scrape_all_others): setup,     *)
(*                chunked launch of scrape_job tasks behind a semaphore,   *)
(*                export, upload_files_with_retry, cleanup, pacing.        *)
(*   SpecPage     one call of DetailsScraping.get_card_details.            *)
(*   SpecResolve  several batches resolving the date folder on one Drive.  *)
(*   SpecClock    the dates read from the wall clock by the tasks of one   *)
(*                chunk and by the upload that follows, and the filter.    *)
(*   SpecChunks   the comprehension that splits the category map.          *)
(*   SpecUpload   one upload_files_with_retry call and the cleanup after   *)
(*                it, with export files that may disappear meanwhile.      *)
(*   SpecLive     Spec under the fairness of the event loop.               *)
(*   SpecJob      the template and page loops of one scrape_job call.      *)
(*   SpecPublish  scrape_publish_date on the text of one record, and the   *)
(*                filter that record then meets.                           *)
(*   SpecExport   the export files save_to_excel writes for one chunk.     *)
(*   SpecNormal   NormalMainScraper.scrape_all_automotives and its tasks,  *)
(*                under the fairness of the event loop.                    *)
(*   SpecSave     one call of SavingOnDriveJobs.save_files.                *)
(*   SpecSessions the browsers and pages of the tasks that scrape at the   *)
(*                same time.                                               *)
(*                                                                         *)
(* asyncio is single threaded: a step of the model is the code between two *)
(* suspension points of one coroutine, and a task only runs while the main *)
(* coroutine is suspended in an await.                                     *)
(***************************************************************************)
EXTENDS Integers, Sequences, FiniteSets, TLC

\* ------------------------------------------------------------------ bounds
NumCategories == 3          \* entries of jobs_data
MaxChunkSize == 2           \* chunk_size is drawn from 1..MaxChunkSize
MaxConcurrentLinks == 2     \* max_concurrent_links is drawn from 1..MaxConcurrentLinks
MaxCards == 2               \* cards on a listing page are drawn from 1..MaxCards
NumRuns == 2                \* runs sharing the root container in SpecResolve
BatchesPerRun == 2          \* batches each of them uploads

\* ------------------------------------------------------- program constants
upload_retries == 3         \* JobsMainScraper.upload_retries

None == 0                   \* Python None / a falsy id

VARIABLES
    \* configuration of the run
    chunk_size, max_concurrent_links,
    \* scrape_all_jobs
    pc, chunk_index, idx, tasks, pending_uploads, local_files,
    \* scrape_job, one per category
    page_no, card_data, semaphore,
    \* the Drive client and the Drive
    service, folders,
    \* upload_files_with_retry
    folder_id, file_i, attempt, uploaded_files,
    \* what happened so far (observations, never read by the program)
    setup_outcome, setup_calls, lookup_calls, create_calls, create_on_existing,
    upload_calls, calls, not_found, delays, forced, fail_service, fail_file, raise_cause,
    upload_state, batches, exported, used_folder_ids, save_errors, task_errors,
    \* get_card_details
    gpc, g_attempt, n_cards, card_i, cards, fail_seen, g_result,
    self_retries, g_attempts, g_browser, g_page, failed_sessions,
    \* scrape_more_details
    d_attempt, d_calls, d_browser, d_used,
    \* SpecResolve
    r_pc, r_folder_id, r_ids,
    \* SpecClock: the wall clock and what the run read from it
    now, run_day, clock_pc, job_pc, job_yesterday, job_data, last_card,
    upload_yesterday,
    \* SpecChunks: the list comprehension that builds jobs_chunks
    ch_items, ch_size, ch_k, ch_out, ch_pc,
    \* SpecJob: the page loops of one scrape_job call
    sj_pc, sj_urls, sj_t, sj_k, sj_started, sj_in_progress,
    \* SpecPublish: scrape_publish_date and the record it dates
    p_pc, p_relative, p_now, p_result, p_kept,
    \* SpecExport: the export files save_to_excel writes for one chunk
    e_pc, e_chunk, e_i, e_disk, e_pending,
    \* SpecNormal: NormalMainScraper.scrape_all_automotives and its tasks
    a_pc, a_n, a_idx, a_tasks, a_page, a_car_data, a_loop, a_pending, a_uploads,
    \* SpecSave: one call of SavingOnDriveJobs.save_files
    sf_pc, sf_files, sf_i, sf_folder_id, sf_uploaded, sf_lookups, sf_creates,
    \* SpecSessions: the browsers and pages of concurrently running tasks
    b_pc, b_calls, b_attempt, b_cards, b_dattempt, b_browser, b_page, b_dbrowser,
    b_live, b_used

run_vars == <<chunk_size, max_concurrent_links, pc, chunk_index, idx, tasks,
              pending_uploads, local_files, page_no, card_data, semaphore,
              service, folder_id, file_i, attempt, uploaded_files,
              setup_outcome, setup_calls, lookup_calls, create_calls,
              create_on_existing, upload_calls, calls, not_found, delays, forced, fail_service,
              fail_file, raise_cause, upload_state, batches, exported,
              used_folder_ids, save_errors, task_errors>>
run_obs == <<used_folder_ids, save_errors, task_errors>>
page_vars == <<gpc, g_attempt, n_cards, card_i, cards, fail_seen, g_result,
               self_retries, g_attempts, g_browser, g_page, failed_sessions,
               d_attempt, d_calls, d_browser, d_used>>
resolve_vars == <<r_pc, r_folder_id, r_ids>>
clock_vars == <<now, run_day, clock_pc, job_pc, job_yesterday, job_data, last_card,
                upload_yesterday>>
chunks_vars == <<ch_items, ch_size, ch_k, ch_out, ch_pc>>
scrape_job_vars == <<sj_pc, sj_urls, sj_t, sj_k, sj_started, sj_in_progress>>
publish_vars == <<p_pc, p_relative, p_now, p_result, p_kept>>
export_vars == <<e_pc, e_chunk, e_i, e_disk, e_pending>>
normal_vars == <<a_pc, a_n, a_idx, a_tasks, a_page, a_car_data, a_loop, a_pending,
                 a_uploads>>
save_vars == <<sf_pc, sf_files, sf_i, sf_folder_id, sf_uploaded, sf_lookups, sf_creates>>
session_vars == <<b_pc, b_calls, b_attempt, b_cards, b_dattempt, b_browser, b_page,
                  b_dbrowser, b_live, b_used>>
vars == <<run_vars, folders, page_vars, resolve_vars, clock_vars, chunks_vars,
          scrape_job_vars, publish_vars,
          export_vars,
          normal_vars,
          save_vars,
          session_vars>>

\* =========================================================== pure helpers
Categories == 1..NumCategories

Min(a, b) == IF a < b THEN a ELSE b

SeqToSet(s) == {s[i] : i \in 1..Len(s)}

\* range(start, stop, step) as Python computes it
RECURSIVE range(_, _, _)
range(start, stop, step) ==
    IF start >= stop THEN <<>>
    ELSE <<start>> \o range(start + step, stop, step)

\* jobs_data: category -> list of (url_template, page_count); the keys are
\* the categories in insertion order, each with one template.
jobs_data ==
    [c \in Categories |-> <<[url_template |-> c, page_count |-> IF c = 1 THEN 2 ELSE 1]>>]

items == [c \in Categories |-> c]      \* list(self.jobs_data.items()), by key

\* items[i : i + n] with Python's 0-based, end-clipped slice
SliceOneMore(s, i, n) == SubSeq(s, i + 1, Min(i + n + 1, Len(s)))
Slice(s, i, n) == SubSeq(s, i + 1, Min(i + n, Len(s)))

jobs_chunks_of(size) ==
    LET starts == range(0, Len(items), size)
    IN  [k \in 1..Len(starts) |-> Slice(items, starts[k], size)]

jobs_chunks == jobs_chunks_of(chunk_size)

chunk == jobs_chunks[chunk_index]

\* the pages of a category in the order the two nested loops visit them
RECURSIVE PagesOf(_)
PagesOf(urls) ==
    IF urls = <<>> THEN <<>>
    ELSE [p \in 1..Head(urls).page_count |-> <<Head(urls).url_template, p>>]
         \o PagesOf(Tail(urls))

Pages(c) == PagesOf(jobs_data[c])

ChunkOf(c) == CHOOSE k \in 1..Len(jobs_chunks) : c \in SeqToSet(jobs_chunks[k])

\* the main coroutine is suspended in an await: tasks may run
MainSuspended == pc \in {"launch_sleep", "await", "u_sleep", "chunk_sleep"}


\* ================================================================== Init
InitPageIdle ==
    /\ gpc = "idle" /\ g_attempt = 0 /\ n_cards = 0 /\ card_i = 0
    /\ cards = <<>> /\ fail_seen = FALSE /\ g_result = "none"
    /\ self_retries = 0 /\ g_attempts = 0
    /\ g_browser = None /\ g_page = None /\ failed_sessions = {}
    /\ d_attempt = 0 /\ d_calls = 0 /\ d_browser = None /\ d_used = {}

InitResolveIdle ==
    /\ r_pc = <<>> /\ r_folder_id = <<>> /\ r_ids = <<>>

\* a Python value that is None or a str; a str is the sequence of its
\* whitespace-separated words
PyNone == [none |-> TRUE, str |-> <<>>]
PyStr(words) == [none |-> FALSE, str |-> words]

InitClockIdle ==
    /\ now = 0 /\ run_day = 0 /\ clock_pc = "idle"
    /\ job_pc = <<>> /\ job_yesterday = <<>> /\ job_data = <<>>
    /\ last_card = [job |-> 0, date_published |-> PyNone, kept |-> FALSE]
    /\ upload_yesterday = PyNone

InitChunksIdle ==
    /\ ch_items = <<>> /\ ch_size = 0 /\ ch_k = 0 /\ ch_out = <<>> /\ ch_pc = "idle"

InitJobIdle ==
    /\ sj_pc = "idle" /\ sj_urls = <<>> /\ sj_t = 0 /\ sj_k = 0
    /\ sj_started = <<>> /\ sj_in_progress = {}

InitPublishIdle ==
    /\ p_pc = "idle" /\ p_relative = PyNone /\ p_now = <<>>
    /\ p_result = PyNone /\ p_kept = FALSE

InitExportIdle ==
    /\ e_pc = "idle" /\ e_chunk = <<>> /\ e_i = 0 /\ e_disk = {} /\ e_pending = <<>>

InitNormalIdle ==
    /\ a_pc = "idle" /\ a_n = 0 /\ a_idx = 0 /\ a_tasks = <<>> /\ a_page = <<>>
    /\ a_car_data = <<>> /\ a_loop = 0 /\ a_pending = <<>> /\ a_uploads = 0

InitSaveIdle ==
    /\ sf_pc = "idle" /\ sf_files = <<>> /\ sf_i = 0 /\ sf_folder_id = None
    /\ sf_uploaded = <<>> /\ sf_lookups = 0 /\ sf_creates = 0

InitSessionsIdle ==
    /\ b_pc = <<>> /\ b_calls = <<>> /\ b_attempt = <<>> /\ b_cards = <<>>
    /\ b_dattempt = <<>> /\ b_browser = <<>> /\ b_page = <<>> /\ b_dbrowser = <<>>
    /\ b_live = {} /\ b_used = {}

InitRun ==
    /\ chunk_size \in 1..MaxChunkSize
    /\ max_concurrent_links \in 1..MaxConcurrentLinks
    /\ pc = "setup"
    /\ chunk_index = 0 /\ idx = 0
    /\ tasks = [c \in Categories |-> "none"]
    /\ pending_uploads = <<>> /\ local_files = {}
    /\ page_no = [c \in Categories |-> 0]
    /\ card_data = [c \in Categories |-> 0]
    /\ semaphore = 0
    /\ service = None
    /\ folder_id = None /\ file_i = 0 /\ attempt = 0 /\ uploaded_files = <<>>
    /\ setup_outcome = "none" /\ setup_calls = 0
    /\ lookup_calls = 0 /\ create_calls = 0 /\ create_on_existing = FALSE
    /\ upload_calls = 0 /\ calls = <<>> /\ not_found = {} /\ delays = <<>> /\ forced = <<>>
    /\ fail_service = None /\ fail_file = 0 /\ raise_cause = "none"
    /\ upload_state = [k \in Categories |-> "none"]
    /\ batches = [k \in Categories |-> <<>>]
    /\ exported = [k \in Categories |-> FALSE]
    /\ used_folder_ids = [k \in Categories |-> {}]
    /\ save_errors = {} /\ task_errors = 0

Init ==
    /\ InitRun
    /\ folders \in {{}, {1}}      \* the date folder is absent, or already there
    /\ InitPageIdle
    /\ InitResolveIdle
    /\ InitClockIdle
    /\ InitChunksIdle
    /\ InitJobIdle
    /\ InitPublishIdle
    /\ InitExportIdle
    /\ InitNormalIdle
    /\ InitSaveIdle
    /\ InitSessionsIdle

\* ===================================================== scrape_all_jobs: setup
SetupOutcomes == {"ok", "env_missing", "json_error", "auth_error", "access_error"}

\* where the setup block leaves the run: every failure is logged and returns
SetupNextPcNoReturn(outcome) ==
    IF outcome \in {"ok", "access_error"} THEN "launch" ELSE "done"
SetupNextPc(outcome) ==
    IF outcome = "ok" THEN "launch" ELSE "done"

\* authenticate(): self.service = build(...), a new session object
NewServiceKept(s) == s
NewService(s) == s + 1

\* authenticate() has replaced self.service when these outcomes are reached
Authenticated(outcome) == outcome \in {"ok", "access_error"}

\* semaphore = asyncio.Semaphore(value): the permits it starts with
SemaphoreBinary(value) == 1
Semaphore(value) == value

Setup(outcome) ==
    /\ pc = "setup"
    /\ setup_calls' = setup_calls + 1
    /\ setup_outcome' = outcome
    /\ service' = IF Authenticated(outcome) THEN NewService(service) ELSE service
    /\ pc' = SetupNextPc(outcome)
    /\ IF pc' = "launch"
          THEN /\ chunk_index' = 1
               /\ semaphore' = Semaphore(max_concurrent_links)
          ELSE UNCHANGED <<chunk_index, semaphore>>
    /\ UNCHANGED <<chunk_size, max_concurrent_links, idx, tasks, pending_uploads,
                   local_files, page_no, card_data, folder_id, file_i, attempt,
                   uploaded_files, lookup_calls, create_calls, create_on_existing,
                   upload_calls, calls, not_found, delays, forced, fail_service, fail_file, raise_cause,
                   upload_state, batches, exported, folders, run_obs>>

\* =================================================== scrape_all_jobs: launch
upload_hist == <<lookup_calls, create_calls, create_on_existing, upload_calls, calls, not_found, delays,
                 forced, fail_service, fail_file, raise_cause, upload_state>>
upload_state_vars == <<service, folder_id, file_i, attempt, uploaded_files, folders>>
config_vars == <<chunk_size, max_concurrent_links, setup_outcome, setup_calls>>
task_vars == <<tasks, page_no, card_data, semaphore>>

\* asyncio.create_task(self.scrape_job(...)) ; await asyncio.sleep(2)
LaunchTask ==
    /\ pc = "launch"
    /\ idx < Len(chunk)
    /\ tasks' = [tasks EXCEPT ![chunk[idx + 1]] = "created"]
    /\ idx' = idx + 1
    /\ pc' = "launch_sleep"
    /\ UNCHANGED <<config_vars, chunk_index, pending_uploads, local_files, page_no,
                   card_data, semaphore, upload_state_vars, upload_hist, batches,
                   exported, run_obs>>

\* the launch delay is over: next job of the chunk, or start awaiting
LaunchWake ==
    /\ pc = "launch_sleep"
    /\ IF idx < Len(chunk)
          THEN /\ pc' = "launch"
               /\ UNCHANGED <<idx, pending_uploads>>
          ELSE /\ pc' = "await"
               /\ idx' = 0
               /\ pending_uploads' = <<>>
    /\ UNCHANGED <<config_vars, chunk_index, local_files, task_vars,
                   upload_state_vars, upload_hist, batches, exported, run_obs>>

\* ================================================================ scrape_job
\* asyncio.Semaphore: acquire() goes through only while the value is positive
CanAcquireAlways == TRUE
CanAcquire == semaphore > 0

\* get_card_details raised, or returned cards of which the date filter kept
\* none or one
PageResults == {"raise", "kept_none", "kept_one"}

main_vars == <<pc, chunk_index, idx, pending_uploads, local_files>>

\* Semaphore.acquire() takes one permit
AcquireFree(s) == s
Acquire(s) == s - 1

\* the task starts running and reaches `async with semaphore`
TaskStart(c) ==
    /\ MainSuspended
    /\ tasks[c] = "created"
    /\ IF CanAcquire
          THEN /\ semaphore' = Acquire(semaphore)
               /\ tasks' = [tasks EXCEPT ![c] = "scraping"]
          ELSE /\ tasks' = [tasks EXCEPT ![c] = "waiting"]
               /\ UNCHANGED semaphore
    /\ UNCHANGED <<config_vars, main_vars, page_no, card_data,
                   upload_state_vars, upload_hist, batches, exported, run_obs>>

\* a waiter is woken and takes the permit
TaskAcquire(c) ==
    /\ MainSuspended
    /\ tasks[c] = "waiting"
    /\ CanAcquire
    /\ semaphore' = Acquire(semaphore)
    /\ tasks' = [tasks EXCEPT ![c] = "scraping"]
    /\ UNCHANGED <<config_vars, main_vars, page_no, card_data,
                   upload_state_vars, upload_hist, batches, exported, run_obs>>

\* one iteration of the page loop: get_card_details, filter, page delay
TaskPage(c, result) ==
    /\ MainSuspended
    /\ tasks[c] = "scraping"
    /\ page_no[c] < Len(Pages(c))
    /\ page_no' = [page_no EXCEPT ![c] = @ + 1]
    /\ card_data' = [card_data EXCEPT ![c] = IF result = "kept_one" THEN @ + 1 ELSE @]
    /\ UNCHANGED <<config_vars, main_vars, tasks, semaphore,
                   upload_state_vars, upload_hist, batches, exported, run_obs>>

\* leaving `async with semaphore` releases the permit
ReleaseLost(s) == s
Release(s) == s + 1

\* the loops are over: leave `async with semaphore` and return card_data
TaskFinish(c) ==
    /\ MainSuspended
    /\ tasks[c] = "scraping"
    /\ page_no[c] = Len(Pages(c))
    /\ semaphore' = Release(semaphore)
    /\ tasks' = [tasks EXCEPT ![c] = "finished"]
    /\ UNCHANGED <<config_vars, main_vars, page_no, card_data,
                   upload_state_vars, upload_hist, batches, exported, run_obs>>

\* url_template.format(page) raises (a template str.format rejects): the
\* statement is outside the try block, so the exception leaves
\* `async with semaphore`, which releases, and ends the task.  A template
\* that format rejects is rejected on its first page.
TaskRaise(c) ==
    /\ MainSuspended
    /\ tasks[c] = "scraping"
    /\ page_no[c] < Len(Pages(c))
    /\ Pages(c)[page_no[c] + 1][2] = 1
    /\ semaphore' = Release(semaphore)
    /\ tasks' = [tasks EXCEPT ![c] = "failed"]
    /\ UNCHANGED <<config_vars, main_vars, page_no, card_data,
                   upload_state_vars, upload_hist, batches, exported, run_obs>>

\* ==================================================== scrape_all_jobs: await
\* `await task` returns only once the task is done
AwaitReadyAlways(c) == TRUE
AwaitReady(c) == tasks[c] \in {"finished", "failed"}

\* `except Exception` around `await task`: the error is logged and the loop
\* goes on with the next task
AwaitErrorPcRaises(next) == "raised"
AwaitErrorPc(next) == next

\* `if card_data:` and, in save_to_excel, `if not card_data: return None`
NonEmptyAlways(n) == TRUE
NonEmpty(n) == n > 0

\* card_data = await task ; save_to_excel ; pending_uploads.append
\* (save_to_excel returns None when writing the file fails)
AwaitTask(saved) ==
    /\ pc = "await"
    /\ idx < Len(chunk)
    /\ LET c == chunk[idx + 1]
           returned == tasks[c] = "finished"
           written == returned /\ NonEmpty(card_data[c]) /\ saved
           next == IF idx + 1 = Len(chunk) THEN "gathered" ELSE "await"
       IN  /\ AwaitReady(c)
           /\ local_files' = IF written THEN local_files \cup {c} ELSE local_files
           /\ pending_uploads' = IF written THEN Append(pending_uploads, c)
                                 ELSE pending_uploads
           /\ save_errors' = IF returned /\ NonEmpty(card_data[c]) /\ ~saved
                                THEN save_errors \cup {c} ELSE save_errors
           /\ task_errors' = IF returned THEN task_errors ELSE task_errors + 1
           /\ pc' = IF returned THEN next ELSE AwaitErrorPc(next)
    /\ idx' = idx + 1
    /\ IF pc' = "gathered"
          THEN /\ exported' = [exported EXCEPT ![chunk_index] = TRUE]
               /\ batches' = [batches EXCEPT ![chunk_index] = pending_uploads']
          ELSE UNCHANGED <<exported, batches>>
    /\ UNCHANGED <<config_vars, chunk_index, task_vars, upload_state_vars,
                   upload_hist, used_folder_ids>>

\* ================================================= upload_files_with_retry
files == pending_uploads      \* the argument of upload_files_with_retry

Zeros(n) == [i \in 1..n |-> 0]

run_hist == <<lookup_calls, create_calls, create_on_existing, upload_calls>>

\* `if pending_uploads:` holds: the call starts, uploaded_files = []
StartUpload ==
    /\ pc = "gathered"
    /\ pending_uploads # <<>>
    /\ pc' = "u_lookup"
    /\ uploaded_files' = <<>>
    /\ folder_id' = None /\ file_i' = 0 /\ attempt' = 0
    /\ calls' = Zeros(Len(files)) /\ delays' = Zeros(Len(files))
    /\ not_found' = {}
    /\ forced' = Zeros(Len(files)) /\ fail_file' = 0
    /\ upload_state' = [upload_state EXCEPT ![chunk_index] = "called"]
    /\ UNCHANGED <<config_vars, chunk_index, idx, pending_uploads, local_files,
                   task_vars, service, folders, run_hist, fail_service,
                   raise_cause, batches, exported, run_obs>>

\* `if pending_uploads:` fails: no upload call, no cleanup
SkipUpload ==
    /\ pc = "gathered"
    /\ pending_uploads = <<>>
    /\ pc' = "chunk_end"
    /\ UNCHANGED <<config_vars, chunk_index, idx, pending_uploads, local_files,
                   task_vars, upload_state_vars, upload_hist, batches, exported, run_obs>>

\* SavingOnDriveJobs.get_folder_id: the first match of the name query, or
\* None when nothing matches and also when the query raises
get_folder_id(fs) == fs \cup {None}

\* SavingOnDriveJobs.create_folder: Drive adds a folder under a fresh id
NewFolderId(fs) == IF fs = {} THEN 1 ELSE (CHOOSE m \in fs : \A x \in fs : x <= m) + 1

CreateOutcomes == {"ok", "raise", "no_id"}

\* the exception leaves upload_files_with_retry (logged, re-raised) and then
\* scrape_all_jobs, which does not catch it
UploadRaises(cause) ==
    /\ pc' = "raised"
    /\ raise_cause' = cause
    /\ upload_state' = [upload_state EXCEPT ![chunk_index] = "raised"]

\* folder_id = drive_saver.get_folder_id(yesterday)
GetFolderId(result) ==
    /\ pc = "u_lookup"
    /\ result \in get_folder_id(folders)
    /\ lookup_calls' = lookup_calls + 1
    /\ folder_id' = result
    /\ IF result # None
          THEN pc' = "u_file" /\ file_i' = 1
          ELSE pc' = "u_create" /\ UNCHANGED file_i
    /\ UNCHANGED <<config_vars, chunk_index, idx, pending_uploads, local_files,
                   task_vars, service, attempt, uploaded_files, folders,
                   create_calls, create_on_existing, upload_calls, calls, not_found, delays,
                   forced, fail_service, fail_file, raise_cause, upload_state,
                   batches, exported, run_obs>>

\* create_folder raised, or `if not folder_id: raise Exception(...)`
FolderFailureContinues ==
    /\ pc' = "u_file" /\ file_i' = 1
    /\ raise_cause' = "folder"
    /\ UNCHANGED upload_state
FolderFailure ==
    /\ UploadRaises("folder")
    /\ UNCHANGED file_i

\* folder_id = drive_saver.create_folder(yesterday) ; raise when no id
CreateFolder(outcome) ==
    /\ pc = "u_create"
    /\ create_calls' = create_calls + 1
    /\ create_on_existing' = (create_on_existing \/ folders # {})
    /\ IF outcome = "ok"
          THEN /\ folders' = folders \cup {NewFolderId(folders)}
               /\ folder_id' = NewFolderId(folders)
               /\ pc' = "u_file" /\ file_i' = 1
               /\ UNCHANGED <<raise_cause, upload_state>>
          ELSE /\ FolderFailure
               /\ UNCHANGED <<folders, folder_id>>
    /\ UNCHANGED <<config_vars, chunk_index, idx, pending_uploads, local_files,
                   task_vars, service, attempt, uploaded_files, lookup_calls,
                   upload_calls, calls, not_found, delays, forced, fail_service, fail_file,
                   batches, exported, run_obs>>

\* `for attempt in range(self.upload_retries)`
AttemptRangeOneMore == 0..upload_retries
AttemptRange == 0..(upload_retries - 1)

\* `if attempt < self.upload_retries - 1`: sleep and re-authenticate
RetryAllowed(a) == a < upload_retries - 1

\* the pause before a retry: await asyncio.sleep(self.upload_retry_delay)
RetryPcNoDelay == "u_auth"
RetryPc == "u_sleep"

\* how many leading upload_file calls for one file the Drive may fail
ForcedFailures == 0..(upload_retries + 1)

\* `for file in files:` takes the next file
FileLoop(plan) ==
    /\ pc = "u_file"
    /\ file_i <= Len(files)
    /\ plan \in ForcedFailures
    /\ forced' = [forced EXCEPT ![file_i] = plan]
    /\ attempt' = 0
    /\ pc' = "u_attempt"
    /\ UNCHANGED <<config_vars, chunk_index, idx, pending_uploads, local_files,
                   task_vars, service, folder_id, file_i, uploaded_files, folders,
                   run_hist, calls, not_found, delays, fail_service, fail_file, raise_cause,
                   upload_state, batches, exported, run_obs>>

\* the attempt loop of this file is left (break, or range exhausted); the
\* next file is uploaded with the folder_id the call already holds
NextFileResolvesAgain ==
    /\ file_i' = file_i + 1
    /\ pc' = "u_lookup"
NextFile ==
    /\ file_i' = file_i + 1
    /\ pc' = "u_file"

\* the attempt loop goes on to attempt a + 1 when the range has it
LoopNext(a) ==
    IF a + 1 \in AttemptRange
       THEN attempt' = a + 1 /\ pc' = "u_attempt" /\ UNCHANGED file_i
       ELSE NextFile /\ UNCHANGED attempt

\* the last attempt failed: "Failed to upload ... after N attempts" is logged
\* and the attempt loop runs out
ExhaustedRaises ==
    /\ UploadRaises("upload")
    /\ UNCHANGED <<file_i, attempt>>
Exhausted ==
    /\ LoopNext(attempt)
    /\ UNCHANGED <<raise_cause, upload_state>>

\* uploaded_files.append(file)
AppendUploadedFirst(fs, f) == <<f>> \o fs
AppendUploaded(fs, f) == Append(fs, f)

\* `else:` of `if os.path.exists(file)`: "File not found for upload" is
\* logged and the attempt loop is left with break
MissingFileRetries ==
    /\ pc' = RetryPc
    /\ UNCHANGED <<file_i, attempt>>
MissingFile ==
    /\ NextFile
    /\ UNCHANGED attempt

\* one pass of the try block: exists, upload_file, id check
UploadAttempt ==
    /\ pc = "u_attempt"
    /\ LET f == files[file_i] IN
       IF f \in local_files
          THEN /\ upload_calls' = upload_calls + 1
               /\ calls' = [calls EXCEPT ![file_i] = @ + 1]
               /\ used_folder_ids' = [used_folder_ids EXCEPT ![chunk_index] =
                                          @ \cup {folder_id}]
               /\ IF calls'[file_i] > forced[file_i]
                     THEN \* upload_file returned a file id
                          /\ uploaded_files' = AppendUploaded(uploaded_files, f)
                          /\ NextFile
                          /\ UNCHANGED <<attempt, fail_service, fail_file,
                                         raise_cause, upload_state>>
                     ELSE \* upload_file raised, or returned no id
                          /\ fail_service' = service
                          /\ fail_file' = file_i
                          /\ IF RetryAllowed(attempt)
                                THEN /\ pc' = RetryPc
                                     /\ UNCHANGED <<file_i, attempt, raise_cause,
                                                    upload_state>>
                                ELSE Exhausted
                          /\ UNCHANGED uploaded_files
               /\ UNCHANGED not_found
          ELSE /\ MissingFile
               /\ not_found' = not_found \cup {file_i}
               /\ UNCHANGED <<upload_calls, calls, uploaded_files,
                              fail_service, fail_file, raise_cause, upload_state,
                              used_folder_ids>>
    /\ UNCHANGED <<config_vars, chunk_index, idx, pending_uploads, local_files,
                   task_vars, service, folder_id, folders, lookup_calls,
                   create_calls, create_on_existing, delays, forced, batches,
                   exported, save_errors, task_errors>>

\* asyncio.sleep(self.upload_retry_delay) has elapsed
RetrySleep ==
    /\ pc = "u_sleep"
    /\ delays' = [delays EXCEPT ![file_i] = @ + 1]
    /\ pc' = "u_auth"
    /\ UNCHANGED <<config_vars, chunk_index, idx, pending_uploads, local_files,
                   task_vars, upload_state_vars, run_hist, calls, not_found, forced,
                   fail_service, fail_file, raise_cause, upload_state, batches,
                   exported, run_obs>>

\* authenticate() raised inside the except block of an attempt: the exception
\* leaves both loops through the outer except, which logs and re-raises
ReauthFailureSwallowed ==
    /\ LoopNext(attempt)
    /\ raise_cause' = "reauth"
    /\ UNCHANGED upload_state
ReauthFailure ==
    /\ UploadRaises("reauth")
    /\ UNCHANGED <<attempt, file_i>>

\* drive_saver.authenticate() in the except block; it re-raises its failure
Reauthenticate(ok) ==
    /\ pc = "u_auth"
    /\ IF ok
          THEN /\ service' = NewService(service)
               /\ LoopNext(attempt)
               /\ UNCHANGED <<raise_cause, upload_state>>
          ELSE /\ ReauthFailure
               /\ UNCHANGED service
    /\ UNCHANGED <<config_vars, chunk_index, idx, pending_uploads, local_files,
                   task_vars, folder_id, uploaded_files, folders, run_hist, calls, not_found,
                   delays, forced, fail_service, fail_file, batches, exported, run_obs>>

\* `return uploaded_files`
UploadReturn ==
    /\ pc = "u_file"
    /\ file_i > Len(files)
    /\ upload_state' = [upload_state EXCEPT ![chunk_index] = "returned"]
    /\ pc' = "cleanup"
    /\ UNCHANGED <<config_vars, chunk_index, idx, pending_uploads, local_files,
                   task_vars, upload_state_vars, run_hist, calls, not_found, delays, forced,
                   fail_service, fail_file, raise_cause, batches, exported, run_obs>>

\* ================================================ scrape_all_jobs: chunk end
\* `for file in pending_uploads: os.remove(file)` inside try/except: every
\* path of the batch is removed, one that is already gone is logged
CleanupTargetsUploaded == SeqToSet(uploaded_files)
CleanupTargets == SeqToSet(pending_uploads)

Cleanup ==
    /\ pc = "cleanup"
    /\ local_files' = local_files \ CleanupTargets
    /\ pc' = "chunk_end"
    /\ UNCHANGED <<config_vars, chunk_index, idx, pending_uploads, task_vars,
                   upload_state_vars, upload_hist, batches, exported, run_obs>>

\* the environment: the export file whose upload is under way or comes next
\* disappears from the working directory (os.path.exists is evaluated anew
\* on every attempt, the first and each retry)
FileLost ==
    /\ pc \in {"u_file", "u_attempt", "u_sleep"}
    /\ file_i \in 1..Len(files)
    /\ files[file_i] \in local_files
    /\ local_files' = local_files \ {files[file_i]}
    /\ UNCHANGED <<config_vars, pc, chunk_index, idx, pending_uploads, task_vars,
                   upload_state_vars, upload_hist, batches, exported, run_obs>>

\* `if chunk_index < len(jobs_chunks)`: pace, else the loop and the run end;
\* the locals of the upload call of this chunk, and what was observed of it
\* per file, are gone
HasNextChunkAlways == TRUE
HasNextChunk == chunk_index < Len(jobs_chunks)

ChunkEnd ==
    /\ pc = "chunk_end"
    /\ pc' = IF HasNextChunk THEN "chunk_sleep" ELSE "done"
    /\ folder_id' = None /\ file_i' = 0 /\ attempt' = 0 /\ uploaded_files' = <<>>
    /\ calls' = <<>> /\ delays' = <<>> /\ forced' = <<>> /\ fail_file' = 0
    /\ not_found' = {}
    /\ UNCHANGED <<config_vars, chunk_index, idx, pending_uploads, local_files,
                   task_vars, service, folders, run_hist, fail_service, raise_cause,
                   upload_state, batches, exported, run_obs>>

\* asyncio.sleep(self.chunk_delay) has elapsed: next iteration of the chunk loop
ChunkWake ==
    /\ pc = "chunk_sleep"
    /\ chunk_index' = chunk_index + 1
    /\ idx' = 0
    /\ pc' = "launch"
    /\ UNCHANGED <<config_vars, pending_uploads, local_files, task_vars,
                   upload_state_vars, upload_hist, batches, exported, run_obs>>

\* ============================================================ specification
Next ==
    \/ \E outcome \in SetupOutcomes : Setup(outcome) /\ UNCHANGED <<page_vars, resolve_vars, clock_vars, chunks_vars, scrape_job_vars, publish_vars, export_vars, normal_vars, save_vars, session_vars>>
    \/ LaunchTask /\ UNCHANGED <<page_vars, resolve_vars, clock_vars, chunks_vars, scrape_job_vars, publish_vars, export_vars, normal_vars, save_vars, session_vars>>
    \/ LaunchWake /\ UNCHANGED <<page_vars, resolve_vars, clock_vars, chunks_vars, scrape_job_vars, publish_vars, export_vars, normal_vars, save_vars, session_vars>>
    \/ \E c \in Categories : TaskStart(c) /\ UNCHANGED <<page_vars, resolve_vars, clock_vars, chunks_vars, scrape_job_vars, publish_vars, export_vars, normal_vars, save_vars, session_vars>>
    \/ \E c \in Categories : TaskAcquire(c) /\ UNCHANGED <<page_vars, resolve_vars, clock_vars, chunks_vars, scrape_job_vars, publish_vars, export_vars, normal_vars, save_vars, session_vars>>
    \/ \E c \in Categories, result \in PageResults :
          TaskPage(c, result) /\ UNCHANGED <<page_vars, resolve_vars, clock_vars, chunks_vars, scrape_job_vars, publish_vars, export_vars, normal_vars, save_vars, session_vars>>
    \/ \E c \in Categories : TaskFinish(c) /\ UNCHANGED <<page_vars, resolve_vars, clock_vars, chunks_vars, scrape_job_vars, publish_vars, export_vars, normal_vars, save_vars, session_vars>>
    \/ \E c \in Categories : TaskRaise(c) /\ UNCHANGED <<page_vars, resolve_vars, clock_vars, chunks_vars, scrape_job_vars, publish_vars, export_vars, normal_vars, save_vars, session_vars>>
    \/ \E saved \in BOOLEAN : AwaitTask(saved) /\ UNCHANGED <<page_vars, resolve_vars, clock_vars, chunks_vars, scrape_job_vars, publish_vars, export_vars, normal_vars, save_vars, session_vars>>
    \/ StartUpload /\ UNCHANGED <<page_vars, resolve_vars, clock_vars, chunks_vars, scrape_job_vars, publish_vars, export_vars, normal_vars, save_vars, session_vars>>
    \/ SkipUpload /\ UNCHANGED <<page_vars, resolve_vars, clock_vars, chunks_vars, scrape_job_vars, publish_vars, export_vars, normal_vars, save_vars, session_vars>>
    \/ \E result \in get_folder_id(folders) :
          GetFolderId(result) /\ UNCHANGED <<page_vars, resolve_vars, clock_vars, chunks_vars, scrape_job_vars, publish_vars, export_vars, normal_vars, save_vars, session_vars>>
    \/ \E outcome \in CreateOutcomes : CreateFolder(outcome) /\ UNCHANGED <<page_vars, resolve_vars, clock_vars, chunks_vars, scrape_job_vars, publish_vars, export_vars, normal_vars, save_vars, session_vars>>
    \/ \E plan \in ForcedFailures : FileLoop(plan) /\ UNCHANGED <<page_vars, resolve_vars, clock_vars, chunks_vars, scrape_job_vars, publish_vars, export_vars, normal_vars, save_vars, session_vars>>
    \/ UploadAttempt /\ UNCHANGED <<page_vars, resolve_vars, clock_vars, chunks_vars, scrape_job_vars, publish_vars, export_vars, normal_vars, save_vars, session_vars>>
    \/ RetrySleep /\ UNCHANGED <<page_vars, resolve_vars, clock_vars, chunks_vars, scrape_job_vars, publish_vars, export_vars, normal_vars, save_vars, session_vars>>
    \/ \E ok \in BOOLEAN : Reauthenticate(ok) /\ UNCHANGED <<page_vars, resolve_vars, clock_vars, chunks_vars, scrape_job_vars, publish_vars, export_vars, normal_vars, save_vars, session_vars>>
    \/ UploadReturn /\ UNCHANGED <<page_vars, resolve_vars, clock_vars, chunks_vars, scrape_job_vars, publish_vars, export_vars, normal_vars, save_vars, session_vars>>
    \/ Cleanup /\ UNCHANGED <<page_vars, resolve_vars, clock_vars, chunks_vars, scrape_job_vars, publish_vars, export_vars, normal_vars, save_vars, session_vars>>
    \/ ChunkEnd /\ UNCHANGED <<page_vars, resolve_vars, clock_vars, chunks_vars, scrape_job_vars, publish_vars, export_vars, normal_vars, save_vars, session_vars>>
    \/ ChunkWake /\ UNCHANGED <<page_vars, resolve_vars, clock_vars, chunks_vars, scrape_job_vars, publish_vars, export_vars, normal_vars, save_vars, session_vars>>

Spec == Init /\ [][Next]_vars

\* The run under the scheduling of the asyncio event loop: a ready callback
\* is run whenever there is one, and every sleep and every external call
\* comes back, so no enabled step is postponed for ever.  The semaphore has
\* a single permit, so every task of a chunk but one has to wait for it.
InitLive ==
    /\ Init
    /\ max_concurrent_links = 1

SpecLive == InitLive /\ [][Next]_vars /\ WF_vars(Next)

\* ============================ one batch: upload_files_with_retry and cleanup
\* The run has gathered the first chunk with MaxChunkSize categories per
\* chunk; any non-empty selection of its categories produced an export file.
\* From here the upload call and the cleanup run while the environment may
\* remove export files (FileLost).
first_chunk == jobs_chunks_of(MaxChunkSize)[1]

Kept(s, S) == SelectSeq(s, LAMBDA x : x \in S)

InitUpload ==
    /\ chunk_size = MaxChunkSize
    /\ max_concurrent_links = MaxConcurrentLinks
    /\ pc = "gathered"
    /\ chunk_index = 1 /\ idx = Len(first_chunk)
    /\ tasks = [c \in Categories |->
                   IF c \in SeqToSet(first_chunk) THEN "finished" ELSE "none"]
    /\ page_no = [c \in Categories |->
                     IF c \in SeqToSet(first_chunk) THEN Len(Pages(c)) ELSE 0]
    /\ \E S \in (SUBSET SeqToSet(first_chunk)) \ {{}} :
          /\ pending_uploads = Kept(first_chunk, S)
          /\ local_files = S
          /\ card_data = [c \in Categories |-> IF c \in S THEN 1 ELSE 0]
          /\ batches = [k \in Categories |->
                           IF k = 1 THEN Kept(first_chunk, S) ELSE <<>>]
    /\ semaphore = MaxConcurrentLinks
    /\ service = NewService(None)
    /\ folder_id = None /\ file_i = 0 /\ attempt = 0 /\ uploaded_files = <<>>
    /\ setup_outcome = "ok" /\ setup_calls = 1
    /\ lookup_calls = 0 /\ create_calls = 0 /\ create_on_existing = FALSE
    /\ upload_calls = 0 /\ calls = <<>> /\ not_found = {} /\ delays = <<>>
    /\ forced = <<>>
    /\ fail_service = None /\ fail_file = 0 /\ raise_cause = "none"
    /\ upload_state = [k \in Categories |-> "none"]
    /\ exported = [k \in Categories |-> k = 1]
    /\ used_folder_ids = [k \in Categories |-> {}]
    /\ save_errors = {} /\ task_errors = 0
    /\ folders \in {{}, {1}}
    /\ InitPageIdle
    /\ InitResolveIdle
    /\ InitClockIdle
    /\ InitChunksIdle
    /\ InitJobIdle
    /\ InitPublishIdle
    /\ InitExportIdle
    /\ InitNormalIdle
    /\ InitSaveIdle
    /\ InitSessionsIdle

NextUpload ==
    \/ StartUpload /\ UNCHANGED <<page_vars, resolve_vars, clock_vars, chunks_vars, scrape_job_vars, publish_vars, export_vars, normal_vars, save_vars, session_vars>>
    \/ \E result \in get_folder_id(folders) :
          GetFolderId(result) /\ UNCHANGED <<page_vars, resolve_vars, clock_vars, chunks_vars, scrape_job_vars, publish_vars, export_vars, normal_vars, save_vars, session_vars>>
    \/ \E outcome \in CreateOutcomes : CreateFolder(outcome) /\ UNCHANGED <<page_vars, resolve_vars, clock_vars, chunks_vars, scrape_job_vars, publish_vars, export_vars, normal_vars, save_vars, session_vars>>
    \/ \E plan \in ForcedFailures : FileLoop(plan) /\ UNCHANGED <<page_vars, resolve_vars, clock_vars, chunks_vars, scrape_job_vars, publish_vars, export_vars, normal_vars, save_vars, session_vars>>
    \/ FileLost /\ UNCHANGED <<page_vars, resolve_vars, clock_vars, chunks_vars, scrape_job_vars, publish_vars, export_vars, normal_vars, save_vars, session_vars>>
    \/ UploadAttempt /\ UNCHANGED <<page_vars, resolve_vars, clock_vars, chunks_vars, scrape_job_vars, publish_vars, export_vars, normal_vars, save_vars, session_vars>>
    \/ RetrySleep /\ UNCHANGED <<page_vars, resolve_vars, clock_vars, chunks_vars, scrape_job_vars, publish_vars, export_vars, normal_vars, save_vars, session_vars>>
    \/ \E ok \in BOOLEAN : Reauthenticate(ok) /\ UNCHANGED <<page_vars, resolve_vars, clock_vars, chunks_vars, scrape_job_vars, publish_vars, export_vars, normal_vars, save_vars, session_vars>>
    \/ UploadReturn /\ UNCHANGED <<page_vars, resolve_vars, clock_vars, chunks_vars, scrape_job_vars, publish_vars, export_vars, normal_vars, save_vars, session_vars>>
    \/ Cleanup /\ UNCHANGED <<page_vars, resolve_vars, clock_vars, chunks_vars, scrape_job_vars, publish_vars, export_vars, normal_vars, save_vars, session_vars>>
    \/ ChunkEnd /\ UNCHANGED <<page_vars, resolve_vars, clock_vars, chunks_vars, scrape_job_vars, publish_vars, export_vars, normal_vars, save_vars, session_vars>>

SpecUpload == InitUpload /\ [][NextUpload]_vars

\* ======================================= DetailsScraping.get_card_details
\* The listing page shows n_cards cards.  A record is the card it was built
\* from and what scrape_more_details returned for it: the details, or {}
\* after its own retries (it catches every exception).  Browsers and pages
\* are objects with an identity; failed_sessions holds the ones a failed
\* attempt on the listing page was using.
MaxRetries == 3             \* self.retries is drawn from 1..MaxRetries

DetailResults == {"full", "empty"}

Record(i, details) == [card |-> i, details |-> details]

\* the objects the call still knows of
Sessions == ({g_browser, g_page} \cup failed_sessions \cup d_used) \ {None}

\* chromium.launch() and new_page() return a new object
NewSession(known) ==
    IF known = {} THEN 1 ELSE (CHOOSE m \in known : \A x \in known : x <= m) + 1

InitRunIdle ==
    /\ chunk_size = 0 /\ max_concurrent_links = 0
    /\ pc = "idle"
    /\ chunk_index = 0 /\ idx = 0
    /\ tasks = <<>> /\ pending_uploads = <<>> /\ local_files = {}
    /\ page_no = <<>> /\ card_data = <<>> /\ semaphore = 0
    /\ service = None
    /\ folder_id = None /\ file_i = 0 /\ attempt = 0 /\ uploaded_files = <<>>
    /\ setup_outcome = "none" /\ setup_calls = 0
    /\ lookup_calls = 0 /\ create_calls = 0 /\ create_on_existing = FALSE
    /\ upload_calls = 0 /\ calls = <<>> /\ not_found = {} /\ delays = <<>> /\ forced = <<>>
    /\ fail_service = None /\ fail_file = 0 /\ raise_cause = "none"
    /\ upload_state = <<>> /\ batches = <<>> /\ exported = <<>>
    /\ used_folder_ids = <<>> /\ save_errors = {} /\ task_errors = 0

\* DetailsScraping(url, retries) ; get_card_details is called
InitPage ==
    /\ InitRunIdle
    /\ InitResolveIdle
    /\ InitClockIdle
    /\ InitChunksIdle
    /\ InitJobIdle
    /\ InitPublishIdle
    /\ InitExportIdle
    /\ InitNormalIdle
    /\ InitSaveIdle
    /\ InitSessionsIdle
    /\ folders = {}
    /\ self_retries \in 1..MaxRetries
    /\ n_cards \in 1..MaxCards
    /\ gpc = "launch" /\ g_attempt = 0 /\ g_attempts = 0 /\ card_i = 0
    /\ cards = <<>> /\ fail_seen = FALSE /\ g_result = "none"
    /\ g_browser = None /\ g_page = None /\ failed_sessions = {}
    /\ d_attempt = 0 /\ d_calls = 0 /\ d_browser = None /\ d_used = {}

detail_vars == <<d_attempt, d_calls, d_browser, d_used>>

\* the browser and the first page are opened outside the try block;
\* cards = [] ; the first attempt starts
PageLaunch(ok) ==
    /\ gpc = "launch"
    /\ IF ok
          THEN /\ gpc' = "goto"
               /\ g_browser' = NewSession(Sessions)
               /\ g_page' = NewSession(Sessions \cup {g_browser'})
               /\ g_attempts' = g_attempts + 1
          ELSE /\ gpc' = "raised"
               /\ UNCHANGED <<g_browser, g_page, g_attempts>>
    /\ UNCHANGED <<self_retries, g_attempt, n_cards, card_i, cards, fail_seen,
                   g_result, failed_sessions, detail_vars>>

\* `for attempt in range(self.retries)`
PageAttemptRangeOneMore == 0..self_retries
PageAttemptRange == 0..(self_retries - 1)

\* the list the next attempt appends to: `cards = []` is set once, before
\* the attempt loop, and no attempt clears it
CardsAtAttemptStart(cs) == cs

\* `except Exception as e:` catches what the attempt body raised; the
\* finally block runs next
ExceptPcReraises == "raised"
ExceptPc == "finally"

\* the except block: log, and break when this was the last attempt
AttemptFails ==
    /\ fail_seen' = TRUE
    /\ g_result' = IF g_attempt + 1 = self_retries THEN "exhausted" ELSE "none"
    /\ failed_sessions' = failed_sessions \cup {g_browser, g_page}
    /\ gpc' = ExceptPc

\* page.goto, wait_for_selector, query_selector_all
PageGoto(ok) ==
    /\ gpc = "goto"
    /\ IF ok
          THEN /\ gpc' = "cards" /\ card_i' = 0
               /\ UNCHANGED <<fail_seen, g_result, failed_sessions>>
          ELSE /\ AttemptFails
               /\ UNCHANGED card_i
    /\ UNCHANGED <<self_retries, g_attempt, g_attempts, n_cards, cards, g_browser,
                   g_page, detail_vars>>

\* one iteration of `for card in card_cards`, up to the call of
\* scrape_more_details: the four card scrapers, any of which may raise
PageCard(raised) ==
    /\ gpc = "cards"
    /\ card_i < n_cards
    /\ IF raised
          THEN /\ AttemptFails
               /\ UNCHANGED detail_vars
          ELSE /\ gpc' = "detail"
               /\ d_attempt' = 0 /\ d_calls' = 0 /\ d_browser' = None /\ d_used' = {}
               /\ UNCHANGED <<fail_seen, g_result, failed_sessions>>
    /\ UNCHANGED <<self_retries, g_attempt, g_attempts, n_cards, card_i, cards,
                   g_browser, g_page>>

\* scrape_more_details: `retries = 3`, a local of the method
retries == 3

\* scrape_more_details returned: cards.append({...}) with .get() of every
\* detail field, and the card loop goes on
DetailReturns(details) ==
    /\ cards' = Append(cards, Record(card_i + 1, details))
    /\ card_i' = card_i + 1
    /\ gpc' = "cards"
    /\ UNCHANGED <<fail_seen, g_result, failed_sessions>>

\* the last attempt of scrape_more_details failed: `return {}`
DetailExhaustedRaises ==
    /\ AttemptFails
    /\ UNCHANGED <<cards, card_i>>
DetailExhausted == DetailReturns("empty")

\* the browser an attempt of scrape_more_details runs in: its own
\* async_playwright() and chromium.launch()
DetailBrowser(known) == NewSession(known)

\* one pass of the try block of scrape_more_details: launch, new_page, goto,
\* the detail scrapers, browser.close, return details; or the except block
DetailAttempt(ok) ==
    /\ gpc = "detail"
    /\ d_calls' = d_calls + 1
    /\ d_browser' = DetailBrowser(Sessions)
    /\ d_used' = d_used \cup {d_browser'}
    /\ IF ok
          THEN /\ DetailReturns("full")
               /\ UNCHANGED d_attempt
          ELSE IF d_attempt + 1 = retries
                  THEN /\ DetailExhausted
                       /\ UNCHANGED d_attempt
                  ELSE /\ d_attempt' = d_attempt + 1
                       /\ UNCHANGED <<gpc, cards, card_i, fail_seen, g_result,
                                      failed_sessions>>
    /\ UNCHANGED <<self_retries, g_attempt, g_attempts, n_cards, g_browser, g_page>>

\* `break  # Exit loop if successful`
PageBreak ==
    /\ gpc = "cards"
    /\ card_i = n_cards
    /\ g_result' = "success"
    /\ gpc' = "finally"
    /\ UNCHANGED <<self_retries, g_attempt, g_attempts, n_cards, card_i, cards,
                   fail_seen, g_browser, g_page, failed_sessions, detail_vars>>

\* finally: `if attempt + 1 < self.retries: page = await browser.new_page()`
NextAttemptPageKept(page, known) == page
NextAttemptPage(page, known) == NewSession(known)

\* finally: page.close(), a new page when attempts remain; then either the
\* next attempt or, after a break, browser.close() and `return cards`
PageFinally(ok) ==
    /\ gpc = "finally"
    /\ IF ~ok
          THEN gpc' = "raised" /\ UNCHANGED <<g_attempt, g_attempts, card_i, cards, g_page>>
          ELSE /\ g_page' = IF g_attempt + 1 < self_retries
                               THEN NextAttemptPage(g_page, Sessions) ELSE g_page
               /\ IF g_result # "none" \/ g_attempt + 1 \notin PageAttemptRange
                     THEN gpc' = "returned" /\ UNCHANGED <<g_attempt, g_attempts, card_i, cards>>
                     ELSE /\ g_attempt' = g_attempt + 1
                          /\ g_attempts' = g_attempts + 1
                          /\ card_i' = 0
                          /\ cards' = CardsAtAttemptStart(cards)
                          /\ gpc' = "goto"
    /\ UNCHANGED <<self_retries, n_cards, fail_seen, g_result, g_browser,
                   failed_sessions, detail_vars>>

NextPage ==
    \/ \E ok \in BOOLEAN : PageLaunch(ok) /\ UNCHANGED <<run_vars, folders, resolve_vars, clock_vars, chunks_vars, scrape_job_vars, publish_vars, export_vars, normal_vars, save_vars, session_vars>>
    \/ \E ok \in BOOLEAN : PageGoto(ok) /\ UNCHANGED <<run_vars, folders, resolve_vars, clock_vars, chunks_vars, scrape_job_vars, publish_vars, export_vars, normal_vars, save_vars, session_vars>>
    \/ \E raised \in BOOLEAN : PageCard(raised) /\ UNCHANGED <<run_vars, folders, resolve_vars, clock_vars, chunks_vars, scrape_job_vars, publish_vars, export_vars, normal_vars, save_vars, session_vars>>
    \/ \E ok \in BOOLEAN : DetailAttempt(ok) /\ UNCHANGED <<run_vars, folders, resolve_vars, clock_vars, chunks_vars, scrape_job_vars, publish_vars, export_vars, normal_vars, save_vars, session_vars>>
    \/ PageBreak /\ UNCHANGED <<run_vars, folders, resolve_vars, clock_vars, chunks_vars, scrape_job_vars, publish_vars, export_vars, normal_vars, save_vars, session_vars>>
    \/ \E ok \in BOOLEAN : PageFinally(ok) /\ UNCHANGED <<run_vars, folders, resolve_vars, clock_vars, chunks_vars, scrape_job_vars, publish_vars, export_vars, normal_vars, save_vars, session_vars>>

SpecPage == InitPage /\ [][NextPage]_vars

\* ================================= folder resolution by concurrent runs
\* Each run calls upload_files_with_retry once per chunk that produced files,
\* and every call runs the resolution block against the same root container:
\* get_folder_id, then create_folder when it got None.  r_ids[r] lists the
\* folder ids the batches of run r have used so far.
Runs == 1..NumRuns

InitResolve ==
    /\ InitRunIdle
    /\ InitPageIdle
    /\ InitClockIdle
    /\ InitChunksIdle
    /\ InitJobIdle
    /\ InitPublishIdle
    /\ InitExportIdle
    /\ InitNormalIdle
    /\ InitSaveIdle
    /\ InitSessionsIdle
    /\ folders \in {{}, {1}}
    /\ r_pc = [r \in Runs |-> "lookup"]
    /\ r_folder_id = [r \in Runs |-> None]
    /\ r_ids = [r \in Runs |-> <<>>]

\* folder_id = drive_saver.get_folder_id(yesterday)
ResolveLookup(r, result) ==
    /\ r_pc[r] = "lookup"
    /\ result \in get_folder_id(folders)
    /\ r_folder_id' = [r_folder_id EXCEPT ![r] = result]
    /\ IF result # None
          THEN /\ r_pc' = [r_pc EXCEPT ![r] = "resolved"]
               /\ r_ids' = [r_ids EXCEPT ![r] = Append(@, result)]
          ELSE /\ r_pc' = [r_pc EXCEPT ![r] = "create"]
               /\ UNCHANGED r_ids
    /\ UNCHANGED folders

\* folder_id = drive_saver.create_folder(yesterday) ; raise when no id
ResolveCreate(r, outcome) ==
    /\ r_pc[r] = "create"
    /\ IF outcome = "ok"
          THEN /\ folders' = folders \cup {NewFolderId(folders)}
               /\ r_folder_id' = [r_folder_id EXCEPT ![r] = NewFolderId(folders)]
               /\ r_ids' = [r_ids EXCEPT ![r] = Append(@, NewFolderId(folders))]
               /\ r_pc' = [r_pc EXCEPT ![r] = "resolved"]
          ELSE /\ r_pc' = [r_pc EXCEPT ![r] = "raised"]
               /\ UNCHANGED <<folders, r_folder_id, r_ids>>

\* the batch is uploaded and the run's next chunk calls
\* upload_files_with_retry again
ResolveNextBatch(r) ==
    /\ r_pc[r] = "resolved"
    /\ Len(r_ids[r]) < BatchesPerRun
    /\ r_pc' = [r_pc EXCEPT ![r] = "lookup"]
    /\ r_folder_id' = [r_folder_id EXCEPT ![r] = None]
    /\ UNCHANGED <<folders, r_ids>>

NextResolve ==
    \/ \E r \in Runs, result \in get_folder_id(folders) :
          ResolveLookup(r, result) /\ UNCHANGED <<run_vars, page_vars, clock_vars, chunks_vars, scrape_job_vars, publish_vars, export_vars, normal_vars, save_vars, session_vars>>
    \/ \E r \in Runs, outcome \in CreateOutcomes :
          ResolveCreate(r, outcome) /\ UNCHANGED <<run_vars, page_vars, clock_vars, chunks_vars, scrape_job_vars, publish_vars, export_vars, normal_vars, save_vars, session_vars>>
    \/ \E r \in Runs : ResolveNextBatch(r) /\ UNCHANGED <<run_vars, page_vars, clock_vars, chunks_vars, scrape_job_vars, publish_vars, export_vars, normal_vars, save_vars, session_vars>>

SpecResolve == InitResolve /\ [][NextResolve]_vars

\* ================================ the target date: scrape_job and uploader
\* One chunk of a run against the wall clock.  scrape_job and
\* upload_files_with_retry each read datetime.now() when they are called; a
\* date is its day number, and midnight may pass while the run is suspended.
MaxMidnights == 1           \* midnights that pass during the run
MaxAge == 2                 \* a record was published 0..MaxAge days before now
ClockJobs == 2              \* scrape_job tasks of the chunk

Jobs == 1..ClockJobs

\* the words of the strings involved
DateWord(d) == <<"date", d>>          \* %Y-%m-%d of day d
TimeWord == <<"time", 0>>             \* %H:%M:%S
Word(k) == <<"word", k>>              \* any other word

\* (datetime.now() - timedelta(days=1)).strftime("%Y-%m-%d")
Yesterday(today) == PyStr(<<DateWord(today - 1)>>)

\* what scrape_publish_date returns: "%Y-%m-%d %H:%M:%S" of the resolved
\* day, or one of its two messages
Timestamp(d) == PyStr(<<DateWord(d), TimeWord>>)
InvalidRelativeTime == PyStr(<<Word(1), Word(2), Word(3)>>)
UnsupportedTimeUnit == PyStr(<<Word(4), Word(5), Word(6), Word(7), Word(8)>>)

\* date_published of a record scraped today: None when the page shows no
\* relative date, else the result of scrape_publish_date
Published(today) ==
    {PyNone, InvalidRelativeTime, UnsupportedTimeUnit}
        \cup {Timestamp(today - a) : a \in 0..MaxAge}

\* bool(v) of a None-or-str value
Truthy(v) == ~v.none /\ v.str # <<>>

\* s.split(): the list of the words of s, each a str
split(s) == [i \in 1..Len(s.str) |-> PyStr(<<s.str[i]>>)]

\* card.get("date_published") and
\*     card.get("date_published", "").split()[0] == yesterday
DateFilterTruthyOnly(date_published, yesterday) == Truthy(date_published)
DateFilter(date_published, yesterday) ==
    /\ Truthy(date_published)
    /\ split(date_published)[1] = yesterday

InitClock ==
    /\ InitRunIdle
    /\ InitPageIdle
    /\ InitResolveIdle
    /\ InitChunksIdle
    /\ InitJobIdle
    /\ InitPublishIdle
    /\ InitExportIdle
    /\ InitNormalIdle
    /\ InitSaveIdle
    /\ InitSessionsIdle
    /\ folders = {}
    /\ now = MaxAge + 1
    /\ run_day = now
    /\ clock_pc = "scrape"
    /\ job_pc = [j \in Jobs |-> "created"]
    /\ job_yesterday = [j \in Jobs |-> PyNone]
    /\ job_data = [j \in Jobs |-> FALSE]
    /\ last_card = [job |-> 0, date_published |-> PyNone, kept |-> FALSE]
    /\ upload_yesterday = PyNone

\* the wall clock passes midnight
Midnight ==
    /\ clock_pc \in {"scrape", "gathered"}
    /\ now < run_day + MaxMidnights
    /\ now' = now + 1
    /\ UNCHANGED <<run_day, clock_pc, job_pc, job_yesterday, job_data, last_card,
                   upload_yesterday>>

\* the task starts: card_data = [] ; yesterday = ...
JobStart(j) ==
    /\ clock_pc = "scrape"
    /\ job_pc[j] = "created"
    /\ job_pc' = [job_pc EXCEPT ![j] = "scraping"]
    /\ job_yesterday' = [job_yesterday EXCEPT ![j] = Yesterday(now)]
    /\ UNCHANGED <<now, run_day, clock_pc, job_data, last_card, upload_yesterday>>

\* one iteration of `for card in cards`: the record is appended when the
\* filter holds
JobFilter(j, date_published) ==
    /\ clock_pc = "scrape"
    /\ job_pc[j] = "scraping"
    /\ date_published \in Published(now)
    /\ LET keep == DateFilter(date_published, job_yesterday[j]) IN
       /\ last_card' = [job |-> j, date_published |-> date_published, kept |-> keep]
       /\ job_data' = [job_data EXCEPT ![j] = @ \/ keep]
    /\ UNCHANGED <<now, run_day, clock_pc, job_pc, job_yesterday, upload_yesterday>>

\* return card_data
JobReturn(j) ==
    /\ clock_pc = "scrape"
    /\ job_pc[j] = "scraping"
    /\ job_pc' = [job_pc EXCEPT ![j] = "returned"]
    /\ UNCHANGED <<now, run_day, clock_pc, job_yesterday, job_data, last_card,
                   upload_yesterday>>

\* every task of the chunk has been awaited
JobsGathered ==
    /\ clock_pc = "scrape"
    /\ \A j \in Jobs : job_pc[j] = "returned"
    /\ clock_pc' = "gathered"
    /\ UNCHANGED <<now, run_day, job_pc, job_yesterday, job_data, last_card,
                   upload_yesterday>>

\* `if pending_uploads:` upload_files_with_retry starts: yesterday = ... names
\* the folder it looks up and creates
UploadStart ==
    /\ clock_pc = "gathered"
    /\ IF \E j \in Jobs : job_data[j]
          THEN /\ upload_yesterday' = Yesterday(now)
               /\ clock_pc' = "upload"
          ELSE /\ clock_pc' = "done"
               /\ UNCHANGED upload_yesterday
    /\ UNCHANGED <<now, run_day, job_pc, job_yesterday, job_data, last_card>>

NextClock ==
    \/ Midnight /\ UNCHANGED <<run_vars, folders, page_vars, resolve_vars, chunks_vars, scrape_job_vars, publish_vars, export_vars, normal_vars, save_vars, session_vars>>
    \/ \E j \in Jobs : JobStart(j) /\ UNCHANGED <<run_vars, folders, page_vars, resolve_vars, chunks_vars, scrape_job_vars, publish_vars, export_vars, normal_vars, save_vars, session_vars>>
    \/ \E j \in Jobs, date_published \in Published(now) :
          JobFilter(j, date_published) /\ UNCHANGED <<run_vars, folders, page_vars, resolve_vars, chunks_vars, scrape_job_vars, publish_vars, export_vars, normal_vars, save_vars, session_vars>>
    \/ \E j \in Jobs : JobReturn(j) /\ UNCHANGED <<run_vars, folders, page_vars, resolve_vars, chunks_vars, scrape_job_vars, publish_vars, export_vars, normal_vars, save_vars, session_vars>>
    \/ JobsGathered /\ UNCHANGED <<run_vars, folders, page_vars, resolve_vars, chunks_vars, scrape_job_vars, publish_vars, export_vars, normal_vars, save_vars, session_vars>>
    \/ UploadStart /\ UNCHANGED <<run_vars, folders, page_vars, resolve_vars, chunks_vars, scrape_job_vars, publish_vars, export_vars, normal_vars, save_vars, session_vars>>

SpecClock == InitClock /\ [][NextClock]_vars

\* ============================================ scrape_all_jobs: jobs_chunks
\* The list comprehension that splits list(self.jobs_data.items()) into
\* chunks, for any number of entries and any chunk size: one iteration of
\* `for i in range(0, len(self.jobs_data), self.chunk_size)` per step.
MaxItems == 8               \* entries of the category map: 0..MaxItems
MaxSize == 4                \* chunk sizes: 1..MaxSize

\* the entries of a map with n keys, in iteration order
ItemsOf(n) == [i \in 1..n |-> i]

ch_starts == range(0, Len(ch_items), ch_size)

InitChunks ==
    /\ InitRunIdle
    /\ InitPageIdle
    /\ InitResolveIdle
    /\ InitClockIdle
    /\ InitJobIdle
    /\ InitPublishIdle
    /\ InitExportIdle
    /\ InitNormalIdle
    /\ InitSaveIdle
    /\ InitSessionsIdle
    /\ folders = {}
    /\ ch_items \in {ItemsOf(n) : n \in 0..MaxItems}
    /\ ch_size \in 1..MaxSize
    /\ ch_k = 0
    /\ ch_out = <<>>
    /\ ch_pc = "build"

\* one element of the comprehension: items[i : i + self.chunk_size]
ChunkAppend ==
    /\ ch_pc = "build"
    /\ ch_k < Len(ch_starts)
    /\ ch_out' = Append(ch_out, Slice(ch_items, ch_starts[ch_k + 1], ch_size))
    /\ ch_k' = ch_k + 1
    /\ UNCHANGED <<ch_items, ch_size, ch_pc>>

\* the range is exhausted: jobs_chunks is bound
ChunksBuilt ==
    /\ ch_pc = "build"
    /\ ch_k = Len(ch_starts)
    /\ ch_pc' = "built"
    /\ UNCHANGED <<ch_items, ch_size, ch_k, ch_out>>

NextChunks ==
    \/ ChunkAppend /\ UNCHANGED <<run_vars, folders, page_vars, resolve_vars, clock_vars, scrape_job_vars, publish_vars, export_vars, normal_vars, save_vars, session_vars>>
    \/ ChunksBuilt /\ UNCHANGED <<run_vars, folders, page_vars, resolve_vars, clock_vars, scrape_job_vars, publish_vars, export_vars, normal_vars, save_vars, session_vars>>

SpecChunks == InitChunks /\ [][NextChunks]_vars

\* ===================================== scrape_job: the page loops of a task
\* One scrape_job call inside `async with semaphore`.  urls is the list of
\* (url_template, page_count) of the category; entry t carries template t.
\* A page is (url_template, page); sj_started lists the pages whose
\* get_card_details call has begun, sj_in_progress those not yet returned.
MaxTemplates == 2           \* urls has 0..MaxTemplates entries
MaxPageCount == 2           \* page_count is drawn from 0..MaxPageCount

UrlLists ==
    UNION {[1..n -> [url_template : 1..MaxTemplates, page_count : 0..MaxPageCount]] :
              n \in 0..MaxTemplates}

\* range(1, page_count + 1)
page_range_descending(page_count) == [i \in 1..page_count |-> page_count + 1 - i]
page_range(page_count) == range(1, page_count + 1, 1)

InitJob ==
    /\ InitRunIdle
    /\ InitPageIdle
    /\ InitResolveIdle
    /\ InitClockIdle
    /\ InitChunksIdle
    /\ InitPublishIdle
    /\ InitExportIdle
    /\ InitNormalIdle
    /\ InitSaveIdle
    /\ InitSessionsIdle
    /\ folders = {}
    /\ sj_urls \in {u \in UrlLists : \A t \in 1..Len(u) : u[t].url_template = t}
    /\ sj_pc = "loop"
    /\ sj_t = 1 /\ sj_k = 0
    /\ sj_started = <<>> /\ sj_in_progress = {}

sj_pages == page_range(sj_urls[sj_t].page_count)

\* `for page in range(...)` has a next page: url = url_template.format(page),
\* scraper = DetailsScraping(url), and get_card_details is awaited
JobPageStart ==
    /\ sj_pc = "loop"
    /\ sj_t <= Len(sj_urls)
    /\ sj_k < Len(sj_pages)
    /\ LET page == <<sj_urls[sj_t].url_template, sj_pages[sj_k + 1]>> IN
       /\ sj_started' = Append(sj_started, page)
       /\ sj_in_progress' = sj_in_progress \cup {page}
    /\ sj_k' = sj_k + 1
    /\ sj_pc' = "scraping"
    /\ UNCHANGED <<sj_urls, sj_t>>

\* url_template.format(page) raises on the first page of a template: the
\* statement is outside the try, the exception ends the call
JobFormatRaises ==
    /\ sj_pc = "loop"
    /\ sj_t <= Len(sj_urls)
    /\ sj_k = 0 /\ sj_k < Len(sj_pages)
    /\ sj_pc' = "raised"
    /\ UNCHANGED <<sj_urls, sj_t, sj_k, sj_started, sj_in_progress>>

\* get_card_details returned (the cards are filtered, then the page delay
\* is awaited) or raised (logged, `continue`)
JobPageDone(ok) ==
    /\ sj_pc = "scraping"
    /\ sj_in_progress' = sj_in_progress \ {sj_started[Len(sj_started)]}
    /\ sj_pc' = IF ok THEN "sleeping" ELSE "loop"
    /\ UNCHANGED <<sj_urls, sj_t, sj_k, sj_started>>

\* asyncio.sleep(self.page_delay) has elapsed
JobPageWake ==
    /\ sj_pc = "sleeping"
    /\ sj_pc' = "loop"
    /\ UNCHANGED <<sj_urls, sj_t, sj_k, sj_started, sj_in_progress>>

\* the inner loop is exhausted: next (url_template, page_count) of urls
JobNextTemplate ==
    /\ sj_pc = "loop"
    /\ sj_t <= Len(sj_urls)
    /\ sj_k >= Len(sj_pages)
    /\ sj_t' = sj_t + 1
    /\ sj_k' = 0
    /\ UNCHANGED <<sj_pc, sj_urls, sj_started, sj_in_progress>>

\* the outer loop is exhausted: return card_data
JobLoopsEnd ==
    /\ sj_pc = "loop"
    /\ sj_t > Len(sj_urls)
    /\ sj_pc' = "returned"
    /\ UNCHANGED <<sj_urls, sj_t, sj_k, sj_started, sj_in_progress>>

NextJob ==
    \/ JobPageStart /\ UNCHANGED <<run_vars, folders, page_vars, resolve_vars, clock_vars, chunks_vars, publish_vars, export_vars, normal_vars, save_vars, session_vars>>
    \/ JobFormatRaises /\ UNCHANGED <<run_vars, folders, page_vars, resolve_vars, clock_vars, chunks_vars, publish_vars, export_vars, normal_vars, save_vars, session_vars>>
    \/ \E ok \in BOOLEAN : JobPageDone(ok) /\ UNCHANGED <<run_vars, folders, page_vars, resolve_vars, clock_vars, chunks_vars, publish_vars, export_vars, normal_vars, save_vars, session_vars>>
    \/ JobPageWake /\ UNCHANGED <<run_vars, folders, page_vars, resolve_vars, clock_vars, chunks_vars, publish_vars, export_vars, normal_vars, save_vars, session_vars>>
    \/ JobNextTemplate /\ UNCHANGED <<run_vars, folders, page_vars, resolve_vars, clock_vars, chunks_vars, publish_vars, export_vars, normal_vars, save_vars, session_vars>>
    \/ JobLoopsEnd /\ UNCHANGED <<run_vars, folders, page_vars, resolve_vars, clock_vars, chunks_vars, publish_vars, export_vars, normal_vars, save_vars, session_vars>>

SpecJob == InitJob /\ [][NextJob]_vars

\* =========================== scrape_publish_date and the record it dates
\* scrape_more_details reads the relative date of a listing and resolves it
\* against datetime.now(); scrape_job then filters the record.  A phrase is
\* the sequence of its tokens: a number, a word that begins with one of the
\* unit spellings, or any other word; `sep` tells whether whitespace comes
\* before the token.  A datetime is <<year, month, day, second of the day>>.
MaxMagnitude == 3           \* magnitudes 0..MaxMagnitude, and HugeMagnitude
HugeMagnitude == 1000000

Units == {"second", "minute", "hour", "day", "month"}

Latin(u, case) == [unit |-> u, script |-> "latin", case |-> case]
Arabic(u) == [unit |-> u, script |-> "arabic", case |-> "-"]
NoText == [unit |-> "-", script |-> "-", case |-> "-"]

UnitTexts ==
    {Latin(u, case) : u \in Units, case \in {"lower", "upper", "title"}}
        \cup {Arabic(u) : u \in Units}

NumTok(n) == [kind |-> "num", n |-> n, text |-> NoText, sep |-> TRUE]
UnitTok(text, sep) == [kind |-> "unit", n |-> 0, text |-> text, sep |-> sep]
WordTok == [kind |-> "word", n |-> 0, text |-> NoText, sep |-> TRUE]

Magnitudes == (0..MaxMagnitude) \cup {HugeMagnitude}

\* the texts scrape_relative_date may hand over
Phrases ==
    LET before == {<<>>, <<WordTok>>, <<NumTok(1)>>, <<UnitTok(Latin("day", "lower"), TRUE)>>}
        after == {<<>>, <<WordTok>>}
        one == {<<NumTok(n), UnitTok(t, TRUE)>> : n \in Magnitudes, t \in UnitTexts}
        two == {<<NumTok(n), UnitTok(Latin(u, "lower"), TRUE)>> :
                   n \in 0..MaxMagnitude, u \in Units}
    IN  {b \o m \o a : b \in before, m \in one, a \in after}
        \cup {m1 \o m2 : m1 \in two, m2 \in two}
        \cup {<<WordTok>>}
        \cup {<<NumTok(n)>> : n \in Magnitudes}
        \cup {<<UnitTok(t, TRUE)>> : t \in UnitTexts}
        \cup {<<NumTok(n), UnitTok(t, FALSE)>> : n \in Magnitudes, t \in UnitTexts}
        \cup {<<UnitTok(t, TRUE), NumTok(n)>> : n \in Magnitudes, t \in UnitTexts}
        \cup {<<NumTok(n), WordTok, UnitTok(t, TRUE)>> : n \in Magnitudes, t \in UnitTexts}

\* datetime.now(): instants next to a month end, a leap day and a year start
Instants == {<<2024, 3, 31, 1>>, <<2025, 1, 1, 43200>>, <<2023, 3, 1, 3599>>}

\* ---- the proleptic Gregorian calendar of datetime
is_leap(y) == y % 4 = 0 /\ (y % 100 # 0 \/ y % 400 = 0)

days_in_month(y, m) ==
    IF m = 2 THEN (IF is_leap(y) THEN 29 ELSE 28)
    ELSE IF m \in {4, 6, 9, 11} THEN 30 ELSE 31

days_before_year(y) ==
    LET p == y - 1 IN p * 365 + (p \div 4) - (p \div 100) + (p \div 400)

RECURSIVE days_before_month(_, _)
days_before_month(y, m) ==
    IF m = 1 THEN 0 ELSE days_before_month(y, m - 1) + days_in_month(y, m - 1)

ymd2ord(y, m, d) == days_before_year(y) + days_before_month(y, m) + d

ord2ymd(ordinal) ==
    LET n0 == ordinal - 1
        n400 == n0 \div 146097
        r400 == n0 % 146097
        n100 == r400 \div 36524
        r100 == r400 % 36524
        n4 == r100 \div 1461
        r4 == r100 % 1461
        n1 == r4 \div 365
        r1 == r4 % 365
        y == n400 * 400 + n100 * 100 + n4 * 4 + n1 + 1
    IN  IF n1 = 4 \/ n100 = 4 THEN <<y - 1, 12, 31>>
        ELSE LET m == CHOOSE k \in 1..12 :
                          /\ days_before_month(y, k) <= r1
                          /\ r1 < days_before_month(y, k) + days_in_month(y, k)
             IN  <<y, m, r1 - days_before_month(y, m) + 1>>

\* the outcome of a call: it returns a value, or it raises
Returns(v) == [raised |-> FALSE, value |-> v]
Raises == [raised |-> TRUE, value |-> PyNone]

\* timedelta(seconds=n), (minutes=n), (hours=n), (days=n), normalised to
\* days and seconds of a day
timedelta(u, n) ==
    IF u = "second" THEN [days |-> n \div 86400, seconds |-> n % 86400]
    ELSE IF u = "minute" THEN [days |-> n \div 1440, seconds |-> (n % 1440) * 60]
    ELSE IF u = "hour" THEN [days |-> n \div 24, seconds |-> (n % 24) * 3600]
    ELSE [days |-> n, seconds |-> 0]

\* current_time - timedelta: OverflowError below datetime.min
minus_timedelta(dt, delta) ==
    LET borrow == IF dt[4] < delta.seconds THEN 1 ELSE 0
        ordinal == ymd2ord(dt[1], dt[2], dt[3]) - delta.days - borrow
        second == dt[4] - delta.seconds + borrow * 86400
    IN  IF ordinal < 1 THEN Raises
        ELSE Returns(ord2ymd(ordinal) \o <<second>>)

\* current_time - relativedelta(months=n): years and months are taken off
\* the calendar fields and the day is clipped to the month; replace() raises
\* ValueError below year 1
minus_relativedelta(dt, n) ==
    LET years == n \div 12
        months == n % 12
        y == IF dt[2] - months < 1 THEN dt[1] - years - 1 ELSE dt[1] - years
        m == IF dt[2] - months < 1 THEN dt[2] - months + 12 ELSE dt[2] - months
    IN  IF y < 1 THEN Raises
        ELSE Returns(<<y, m, Min(days_in_month(y, m), dt[3]), dt[4]>>)

\* strftime("%Y-%m-%d %H:%M:%S") and strftime("%Y-%m-%d")
ClockWord(second) ==
    <<"time", <<second \div 3600, (second % 3600) \div 60, second % 60>>>>
strftime_datetime(dt) == PyStr(<<DateWord(<<dt[1], dt[2], dt[3]>>), ClockWord(dt[4])>>)
strftime_date(dt) == PyStr(<<DateWord(<<dt[1], dt[2], dt[3]>>)>>)

\* re.search(relative_time_pattern, relative_time, re.IGNORECASE): digits,
\* whitespace, then one of the unit spellings in any letter case; the
\* position of the leftmost match, 0 for no match
Matches(phrase, i) ==
    /\ i + 1 <= Len(phrase)
    /\ phrase[i].kind = "num"
    /\ phrase[i + 1].kind = "unit"
    /\ phrase[i + 1].sep

re_search(phrase) ==
    IF \E i \in 1..Len(phrase) : Matches(phrase, i)
       THEN CHOOSE i \in 1..Len(phrase) :
               /\ Matches(phrase, i)
               /\ \A j \in 1..(i - 1) : ~Matches(phrase, j)
       ELSE 0

\* str.lower()
lower(text) == IF text.script = "latin" THEN [text EXCEPT !.case = "lower"] ELSE text

\* `if not match: return "Invalid Relative Time"`
NoMatchRaises == Raises
NoMatch == Returns(InvalidRelativeTime)

scrape_publish_date(relative_time, current_time) ==
    LET match == re_search(relative_time) IN
    IF match = 0 THEN NoMatch
    ELSE LET number == relative_time[match].n
             unit == lower(relative_time[match + 1].text)
             Is(u) == unit \in {Latin(u, "lower"), Arabic(u)}
             publish_time ==
                 IF Is("second") \/ Is("minute") \/ Is("hour") \/ Is("day")
                    THEN minus_timedelta(current_time, timedelta(unit.unit, number))
                    ELSE minus_relativedelta(current_time, number)
         IN  IF \E u \in Units : Is(u)
                THEN IF publish_time.raised THEN Raises
                     ELSE Returns(strftime_datetime(publish_time.value))
                ELSE Returns(UnsupportedTimeUnit)

\* yesterday = (datetime.now() - timedelta(days=1)).strftime("%Y-%m-%d")
yesterday_of(dt) == strftime_date(minus_timedelta(dt, timedelta("day", 1)).value)

InitPublish ==
    /\ InitRunIdle
    /\ InitPageIdle
    /\ InitResolveIdle
    /\ InitClockIdle
    /\ InitChunksIdle
    /\ InitJobIdle
    /\ InitExportIdle
    /\ InitNormalIdle
    /\ InitSaveIdle
    /\ InitSessionsIdle
    /\ folders = {}
    /\ p_relative \in {PyNone, PyStr(<<>>)} \cup {PyStr(ph) : ph \in Phrases}
    /\ p_now \in Instants
    /\ p_pc = "details"
    /\ p_result = PyNone
    /\ p_kept = FALSE

\* date_published = await self.scrape_publish_date(relative_date)
\*                  if relative_date else None
PublishDate ==
    /\ p_pc = "details"
    /\ LET outcome == IF Truthy(p_relative)
                         THEN scrape_publish_date(p_relative.str, p_now)
                         ELSE Returns(PyNone)
       IN  /\ p_result' = outcome.value
           /\ p_pc' = IF outcome.raised THEN "raised" ELSE "record"
    /\ UNCHANGED <<p_relative, p_now, p_kept>>

\* the exception is caught by scrape_more_details, which retries and then
\* returns {}: the record gets date_published = {}.get('date_published')
DetailsGivenUp ==
    /\ p_pc = "raised"
    /\ p_result' = PyNone
    /\ p_pc' = "record"
    /\ UNCHANGED <<p_relative, p_now, p_kept>>

\* scrape_job: the filter on the record
RecordFilter ==
    /\ p_pc = "record"
    /\ p_kept' = DateFilter(p_result, yesterday_of(p_now))
    /\ p_pc' = "filtered"
    /\ UNCHANGED <<p_relative, p_now, p_result>>

NextPublish ==
    \/ PublishDate /\ UNCHANGED <<run_vars, folders, page_vars, resolve_vars, clock_vars, chunks_vars, scrape_job_vars, export_vars, normal_vars, save_vars, session_vars>>
    \/ DetailsGivenUp /\ UNCHANGED <<run_vars, folders, page_vars, resolve_vars, clock_vars, chunks_vars, scrape_job_vars, export_vars, normal_vars, save_vars, session_vars>>
    \/ RecordFilter /\ UNCHANGED <<run_vars, folders, page_vars, resolve_vars, clock_vars, chunks_vars, scrape_job_vars, export_vars, normal_vars, save_vars, session_vars>>

SpecPublish == InitPublish /\ [][NextPublish]_vars

\* ======================== save_to_excel: the export files of one chunk
\* A category label is a str, here a sequence of characters; the labels of a
\* chunk are keys of one dict, so they differ from each other.  The await
\* loop of scrape_all_jobs saves the categories of the chunk in order.
MaxLabelLen == 2            \* a label has 1..MaxLabelLen characters

Chars == {"a", "_", "/", "\\"}

Labels == UNION {[1..n -> Chars] : n \in 1..MaxLabelLen}

\* str.replace(old, new) with one-character old and new: every occurrence
replace(s, old, new) == [i \in 1..Len(s) |-> IF s[i] = old THEN new ELSE s[i]]

\* safe_name = job_name.replace('/', '_').replace('\\', '_')
safe_name(job_name) == replace(replace(job_name, "/", "_"), "\\", "_")

\* excel_file = Path(f"{safe_name}.xlsx")
excel_file(job_name) == safe_name(job_name) \o <<".xlsx">>

Distinct(s) == \A i, j \in 1..Len(s) : i # j => s[i] # s[j]

InitExport ==
    /\ e_pc = "await"
    /\ e_chunk \in UNION {[1..n -> Labels] : n \in 1..MaxChunkSize}
    /\ Distinct(e_chunk)
    /\ e_i = 0 /\ e_disk = {} /\ e_pending = <<>>
    /\ InitRunIdle /\ folders = {}
    /\ InitPageIdle
    /\ InitResolveIdle
    /\ InitClockIdle
    /\ InitChunksIdle
    /\ InitJobIdle
    /\ InitPublishIdle
    /\ InitNormalIdle
    /\ InitSaveIdle
    /\ InitSessionsIdle

ExportNextPc == IF e_i + 1 = Len(e_chunk) THEN "gathered" ELSE "await"

\* card_data is non-empty and df.to_excel(excel_file) wrote the file, putting
\* it in place of whatever was at that path; the path joins pending_uploads
ExportSave ==
    /\ e_pc = "await"
    /\ e_i < Len(e_chunk)
    /\ LET job_name == e_chunk[e_i + 1]
           path == excel_file(job_name)
       IN  /\ e_disk' = {f \in e_disk : f.path # path}
                           \cup {[path |-> path, job |-> job_name]}
           /\ e_pending' = Append(e_pending, path)
    /\ e_i' = e_i + 1
    /\ e_pc' = ExportNextPc
    /\ UNCHANGED e_chunk

\* the task raised, card_data is empty, or to_excel raised: no file, and
\* nothing joins pending_uploads
ExportNone ==
    /\ e_pc = "await"
    /\ e_i < Len(e_chunk)
    /\ e_i' = e_i + 1
    /\ e_pc' = ExportNextPc
    /\ UNCHANGED <<e_chunk, e_disk, e_pending>>

NextExport ==
    \/ ExportSave /\ UNCHANGED <<run_vars, folders, page_vars, resolve_vars, clock_vars, chunks_vars, scrape_job_vars, publish_vars, normal_vars, save_vars, session_vars>>
    \/ ExportNone /\ UNCHANGED <<run_vars, folders, page_vars, resolve_vars, clock_vars, chunks_vars, scrape_job_vars, publish_vars, normal_vars, save_vars, session_vars>>

SpecExport == InitExport /\ [][NextExport]_vars

\* ============== NormalMainScraper.scrape_all_automotives and its tasks
\* automotives_data has a_n categories, each with the templates and page
\* counts of jobs_data.  asyncio runs one coroutine at a time: a_loop is the
\* task that is executing (0 when none is), and a task gives the loop up
\* only where an await suspends it or where it ends.
OtherGroupsNormal == <<run_vars, folders, page_vars, resolve_vars, clock_vars,
                       chunks_vars, scrape_job_vars, publish_vars, export_vars,
                       save_vars, session_vars>>

\* the methods class DetailsScraping defines
DetailsScrapingMethods ==
    {"__init__", "get_card_details", "scrape_link", "scrape_card_type",
     "scrape_title", "scrape_description", "scrape_pinned_today",
     "scrape_relative_date", "scrape_publish_date", "scrape_views_no",
     "scrape_id", "scrape_image", "scrape_price", "scrape_address",
     "scrape_additionalDetails_list", "scrape_specifications",
     "scrape_phone_number", "scrape_submitter_details", "scrape_more_details"}

\* getattr(scraper, name) finds the attribute; otherwise AttributeError
hasattr(name) == name \in DetailsScrapingMethods

Automotives == 1..a_n

InitNormal ==
    /\ a_pc = "setup"
    /\ a_n \in 1..NumCategories
    /\ a_idx = 0
    /\ a_tasks = [c \in 1..a_n |-> "none"]
    /\ a_page = [c \in 1..a_n |-> 0]
    /\ a_car_data = [c \in 1..a_n |-> 0]
    /\ a_loop = 0
    /\ a_pending = <<>> /\ a_uploads = 0
    /\ InitRunIdle /\ folders = {}
    /\ InitPageIdle
    /\ InitResolveIdle
    /\ InitClockIdle
    /\ InitChunksIdle
    /\ InitJobIdle
    /\ InitPublishIdle
    /\ InitExportIdle
    /\ InitSaveIdle
    /\ InitSessionsIdle

\* the setup block: any failure is logged and scrape_all_automotives returns
NormalSetup(ok) ==
    /\ a_pc = "setup"
    /\ a_pc' = IF ok THEN "launch" ELSE "done"
    /\ UNCHANGED <<a_n, a_idx, a_tasks, a_page, a_car_data, a_loop, a_pending,
                   a_uploads>>

\* asyncio.create_task(self.scrape_automotive(...)) ; await asyncio.sleep(2)
NormalLaunch ==
    /\ a_pc = "launch"
    /\ a_idx < a_n
    /\ a_tasks' = [a_tasks EXCEPT ![a_idx + 1] = "created"]
    /\ a_idx' = a_idx + 1
    /\ a_pc' = "launch_sleep"
    /\ UNCHANGED <<a_n, a_page, a_car_data, a_loop, a_pending, a_uploads>>

\* the main coroutine is suspended: in the launch delay, or in `await task`
\* on a task that is not done
NormalMainSuspended ==
    \/ a_pc = "launch_sleep"
    \/ /\ a_pc = "await"
       /\ a_idx < a_n
       /\ a_tasks[a_idx + 1] \notin {"finished", "failed"}

\* the event loop runs the first step of a task that was scheduled
NormalTaskStart(c) ==
    /\ NormalMainSuspended
    /\ a_loop = 0
    /\ a_tasks[c] = "created"
    /\ a_tasks' = [a_tasks EXCEPT ![c] = "running"]
    /\ a_loop' = c
    /\ UNCHANGED <<a_pc, a_n, a_idx, a_page, a_car_data, a_pending, a_uploads>>

\* one iteration of the page loop: `await scraper.get_car_details()` inside
\* try.  When the attribute exists the call suspends the task on the browser;
\* when it does not, the AttributeError is caught and logged by
\* `except Exception` and the loop goes on without any suspension.
NormalTaskPage(c) ==
    /\ a_loop = c
    /\ a_tasks[c] = "running"
    /\ a_page[c] < Len(Pages(c))
    /\ IF hasattr("get_car_details")
          THEN /\ a_tasks' = [a_tasks EXCEPT ![c] = "suspended"]
               /\ a_loop' = 0
               /\ UNCHANGED a_page
          ELSE /\ a_page' = [a_page EXCEPT ![c] = @ + 1]
               /\ UNCHANGED <<a_tasks, a_loop>>
    /\ UNCHANGED <<a_pc, a_n, a_idx, a_car_data, a_pending, a_uploads>>

\* url_template.format(page) raises outside the try block: the task ends
\* with the exception
NormalTaskFormatRaises(c) ==
    /\ a_loop = c
    /\ a_tasks[c] = "running"
    /\ a_page[c] < Len(Pages(c))
    /\ Pages(c)[a_page[c] + 1][2] = 1
    /\ a_tasks' = [a_tasks EXCEPT ![c] = "failed"]
    /\ a_loop' = 0
    /\ UNCHANGED <<a_pc, a_n, a_idx, a_page, a_car_data, a_pending, a_uploads>>

\* `return car_data`
NormalTaskReturn(c) ==
    /\ a_loop = c
    /\ a_tasks[c] = "running"
    /\ a_page[c] = Len(Pages(c))
    /\ a_tasks' = [a_tasks EXCEPT ![c] = "finished"]
    /\ a_loop' = 0
    /\ UNCHANGED <<a_pc, a_n, a_idx, a_page, a_car_data, a_pending, a_uploads>>

\* the launch delay is over.  The task created before it was scheduled ahead
\* of the timer, so it has run up to its first suspension or to its end.
NormalLaunchWake ==
    /\ a_pc = "launch_sleep"
    /\ a_loop = 0
    /\ a_tasks[a_idx] # "created"
    /\ IF a_idx < a_n
          THEN /\ a_pc' = "launch"
               /\ UNCHANGED a_idx
          ELSE /\ a_pc' = "await"
               /\ a_idx' = 0
    /\ a_pending' = <<>>
    /\ UNCHANGED <<a_n, a_tasks, a_page, a_car_data, a_loop, a_uploads>>

\* car_data = await task (not inside a try) ; save_to_excel ; append
NormalAwait(saved) ==
    /\ a_pc = "await"
    /\ a_loop = 0
    /\ a_idx < a_n
    /\ LET c == a_idx + 1 IN
       /\ a_tasks[c] \in {"finished", "failed"}
       /\ IF a_tasks[c] = "failed"
             THEN /\ a_pc' = "raised"
                  /\ UNCHANGED a_pending
             ELSE /\ a_pc' = IF c = a_n THEN "gathered" ELSE "await"
                  /\ a_pending' = IF NonEmpty(a_car_data[c]) /\ saved
                                     THEN Append(a_pending, c) ELSE a_pending
    /\ a_idx' = a_idx + 1
    /\ UNCHANGED <<a_n, a_tasks, a_page, a_car_data, a_loop, a_uploads>>

\* `if pending_uploads:` the one upload call of the run ; the cleanup loop
NormalFinish ==
    /\ a_pc = "gathered"
    /\ a_uploads' = IF a_pending # <<>> THEN a_uploads + 1 ELSE a_uploads
    /\ a_pc' = "done"
    /\ UNCHANGED <<a_n, a_idx, a_tasks, a_page, a_car_data, a_loop, a_pending>>

NextNormal ==
    \/ \E ok \in BOOLEAN : NormalSetup(ok) /\ UNCHANGED OtherGroupsNormal
    \/ NormalLaunch /\ UNCHANGED OtherGroupsNormal
    \/ \E c \in Automotives : NormalTaskStart(c) /\ UNCHANGED OtherGroupsNormal
    \/ \E c \in Automotives : NormalTaskPage(c) /\ UNCHANGED OtherGroupsNormal
    \/ \E c \in Automotives : NormalTaskFormatRaises(c) /\ UNCHANGED OtherGroupsNormal
    \/ \E c \in Automotives : NormalTaskReturn(c) /\ UNCHANGED OtherGroupsNormal
    \/ NormalLaunchWake /\ UNCHANGED OtherGroupsNormal
    \/ \E saved \in BOOLEAN : NormalAwait(saved) /\ UNCHANGED OtherGroupsNormal
    \/ NormalFinish /\ UNCHANGED OtherGroupsNormal

\* The event loop runs every ready callback and every timer expires.
SpecNormal == InitNormal /\ [][NextNormal]_vars /\ WF_vars(NextNormal)

\* ================================== SavingOnDriveJobs.save_files(files)
\* One call with a list of distinct file names, against a Drive on which the
\* date folder is absent or present.  sf_uploaded lists, in the order of the
\* calls, the files upload_file has put on the Drive and the parent it used.
OtherGroupsSave == <<run_vars, page_vars, resolve_vars, clock_vars, chunks_vars,
                     scrape_job_vars, publish_vars, export_vars, normal_vars,
                     session_vars>>

FileLists == {fs \in UNION {[1..n -> Categories] : n \in 0..MaxChunkSize} : Distinct(fs)}

InitSave ==
    /\ sf_pc = "lookup"
    /\ sf_files \in FileLists
    /\ sf_i = 0 /\ sf_folder_id = None /\ sf_uploaded = <<>>
    /\ sf_lookups = 0 /\ sf_creates = 0
    /\ folders \in {{}, {1}}
    /\ InitRunIdle
    /\ InitPageIdle
    /\ InitResolveIdle
    /\ InitClockIdle
    /\ InitChunksIdle
    /\ InitJobIdle
    /\ InitPublishIdle
    /\ InitExportIdle
    /\ InitNormalIdle
    /\ InitSessionsIdle

\* folder_id = self.get_folder_id(yesterday) ; `if not folder_id:`
SaveLookup(result) ==
    /\ sf_pc = "lookup"
    /\ result \in get_folder_id(folders)
    /\ sf_lookups' = sf_lookups + 1
    /\ sf_folder_id' = result
    /\ IF result # None
          THEN sf_pc' = "upload" /\ sf_i' = 1
          ELSE sf_pc' = "create" /\ UNCHANGED sf_i
    /\ UNCHANGED <<sf_files, sf_uploaded, sf_creates, folders>>

\* an exception inside the try block: "Error saving files" is printed and
\* the exception is re-raised to the caller
SaveFailureSkipsFile ==
    /\ sf_pc' = "upload"
    /\ sf_i' = sf_i + 1
SaveFailure ==
    /\ sf_pc' = "raised"
    /\ UNCHANGED sf_i

\* folder_id = self.create_folder(yesterday); the id it returns is not tested
SaveCreate(outcome) ==
    /\ sf_pc = "create"
    /\ sf_creates' = sf_creates + 1
    /\ CASE outcome = "ok" ->
              /\ folders' = folders \cup {NewFolderId(folders)}
              /\ sf_folder_id' = NewFolderId(folders)
              /\ sf_pc' = "upload" /\ sf_i' = 1
         [] outcome = "no_id" ->
              /\ sf_pc' = "upload" /\ sf_i' = 1
              /\ UNCHANGED <<folders, sf_folder_id>>
         [] outcome = "raise" ->
              /\ sf_pc' = "raised"
              /\ UNCHANGED <<folders, sf_folder_id, sf_i>>
    /\ UNCHANGED <<sf_files, sf_uploaded, sf_lookups>>

\* self.upload_file(file_name, folder_id) for the next file of the list;
\* upload_file re-raises whatever fails in it
SaveUpload(ok) ==
    /\ sf_pc = "upload"
    /\ sf_i <= Len(sf_files)
    /\ IF ok
          THEN /\ sf_uploaded' = Append(sf_uploaded,
                                        [file |-> sf_files[sf_i], parent |-> sf_folder_id])
               /\ sf_i' = sf_i + 1
               /\ UNCHANGED sf_pc
          ELSE /\ SaveFailure
               /\ UNCHANGED sf_uploaded
    /\ UNCHANGED <<sf_files, sf_folder_id, sf_lookups, sf_creates, folders>>

\* the loop is over: "All files uploaded successfully" is printed
SaveReturn ==
    /\ sf_pc = "upload"
    /\ sf_i > Len(sf_files)
    /\ sf_pc' = "returned"
    /\ UNCHANGED <<sf_files, sf_i, sf_folder_id, sf_uploaded, sf_lookups, sf_creates,
                   folders>>

NextSave ==
    \/ \E result \in get_folder_id(folders) :
          SaveLookup(result) /\ UNCHANGED OtherGroupsSave
    \/ \E outcome \in CreateOutcomes : SaveCreate(outcome) /\ UNCHANGED OtherGroupsSave
    \/ \E ok \in BOOLEAN : SaveUpload(ok) /\ UNCHANGED OtherGroupsSave
    \/ SaveReturn /\ UNCHANGED OtherGroupsSave

SpecSave == InitSave /\ [][NextSave]_vars

\* ============= the browsers and pages of concurrently running scrape tasks
\* The tasks that are inside `async with semaphore` at the same time: task t
\* scrapes the pages of category t, one DetailsScraping object and one
\* get_card_details call per page.  A browser is an object with an identity
\* (a positive number); a page is the no-th page of its browser, and the
\* pair <<id, 0>> stands for the browser itself.  b_live holds the browsers
\* that are open with the task whose call launched them, b_used who has
\* used which object of an open browser.
OtherGroupsSessions == <<run_vars, folders, page_vars, resolve_vars, clock_vars,
                         chunks_vars, scrape_job_vars, publish_vars, export_vars,
                         normal_vars, save_vars>>

SessionTasks == 1..MaxConcurrentLinks

LiveIds == {o.id : o \in b_live}

\* p.chromium.launch(): a new browser object, distinct from every open one.
\* Which identity it gets is immaterial: it is `want` when no open browser
\* has that one, and the smallest free one otherwise.
launchShared(ids, want) == 1
launch(ids, want) ==
    IF want \notin ids THEN want
    ELSE CHOOSE h \in 1..(Cardinality(ids) + 1) :
             h \notin ids /\ \A x \in 1..(h - 1) : x \in ids

\* browser.new_page(): the next page of that browser
new_page(browser, no) == <<browser, no>>

\* the task operates the objects (goto, selectors); what is recorded of an
\* object goes with it when it is closed
Use(t, objects) == b_used \cup {[obj |-> o, by |-> t] : o \in objects}

\* browser.close(), or leaving `async with async_playwright()`
Close(live, id) == {o \in live : o.id # id}
Forget(used, id) == {u \in used : u.obj[1] # id}

InitSessions ==
    /\ b_pc = [t \in SessionTasks |-> "page"]
    /\ b_calls = [t \in SessionTasks |-> 0]
    /\ b_attempt = [t \in SessionTasks |-> 0]
    /\ b_cards = [t \in SessionTasks |-> 0]
    /\ b_dattempt = [t \in SessionTasks |-> 0]
    /\ b_browser = [t \in SessionTasks |-> None]
    /\ b_page = [t \in SessionTasks |-> <<>>]
    /\ b_dbrowser = [t \in SessionTasks |-> None]
    /\ b_live = {} /\ b_used = {}
    /\ InitRunIdle /\ folders = {}
    /\ InitPageIdle
    /\ InitResolveIdle
    /\ InitClockIdle
    /\ InitChunksIdle
    /\ InitJobIdle
    /\ InitPublishIdle
    /\ InitExportIdle
    /\ InitNormalIdle
    /\ InitSaveIdle

\* scraper = DetailsScraping(url) ; get_card_details: launch, new_page
SessCall(t) ==
    /\ b_pc[t] = "page"
    /\ b_calls[t] < Len(Pages(t))
    /\ LET id == launch(LiveIds, 2 * t - 1) IN
       /\ b_browser' = [b_browser EXCEPT ![t] = id]
       /\ b_page' = [b_page EXCEPT ![t] = new_page(id, 1)]
       /\ b_live' = b_live \cup {[id |-> id, creator |-> t]}
       /\ b_used' = Use(t, {<<id, 0>>, new_page(id, 1)})
    /\ b_attempt' = [b_attempt EXCEPT ![t] = 0]
    /\ b_cards' = [b_cards EXCEPT ![t] = 0]
    /\ b_pc' = [b_pc EXCEPT ![t] = "listing"]
    /\ UNCHANGED <<b_calls, b_dattempt, b_dbrowser>>

\* a card of the listing page is read and scrape_more_details is called: its
\* first attempt launches a browser and a page of its own and goes to the
\* detail page
SessCard(t) ==
    /\ b_pc[t] = "listing"
    /\ b_cards[t] < MaxCards
    /\ LET id == launch(LiveIds, 2 * t) IN
       /\ b_dbrowser' = [b_dbrowser EXCEPT ![t] = id]
       /\ b_live' = b_live \cup {[id |-> id, creator |-> t]}
       /\ b_used' = Use(t, {b_page[t], <<id, 0>>, new_page(id, 1)})
    /\ b_dattempt' = [b_dattempt EXCEPT ![t] = 0]
    /\ b_pc' = [b_pc EXCEPT ![t] = "detail"]
    /\ UNCHANGED <<b_calls, b_attempt, b_cards, b_browser, b_page>>

\* the attempt of scrape_more_details ends and its browser is closed: it
\* returns the details, or it failed and the next attempt launches again, or
\* after the last attempt {} is returned
SessDetail(t, ok) ==
    /\ b_pc[t] = "detail"
    /\ LET old == b_dbrowser[t]
           used == Forget(b_used, old)
           live == Close(b_live, old)
       IN  IF ok \/ b_dattempt[t] + 1 = retries
              THEN /\ b_live' = live
                   /\ b_used' = used
                   /\ b_dbrowser' = [b_dbrowser EXCEPT ![t] = None]
                   /\ b_cards' = [b_cards EXCEPT ![t] = @ + 1]
                   /\ b_pc' = [b_pc EXCEPT ![t] = "listing"]
                   /\ b_dattempt' = [b_dattempt EXCEPT ![t] = 0]
              ELSE LET id == launch({o.id : o \in live}, 2 * t) IN
                   /\ b_live' = live \cup {[id |-> id, creator |-> t]}
                   /\ b_used' = used \cup {[obj |-> o, by |-> t] :
                                              o \in {<<id, 0>>, new_page(id, 1)}}
                   /\ b_dbrowser' = [b_dbrowser EXCEPT ![t] = id]
                   /\ b_dattempt' = [b_dattempt EXCEPT ![t] = @ + 1]
                   /\ UNCHANGED <<b_cards, b_pc>>
    /\ UNCHANGED <<b_calls, b_attempt, b_browser, b_page>>

\* the attempt on the listing page ends: break after the cards, or an
\* exception; finally closes the page and, when an attempt is left, opens
\* the next page of the same browser; after the loop browser.close()
SessAttemptEnd(t, ok) ==
    /\ b_pc[t] = "listing"
    /\ IF ok \/ b_attempt[t] + 1 = retries
          THEN /\ b_live' = Close(b_live, b_browser[t])
               /\ b_used' = Forget(b_used, b_browser[t])
               /\ b_browser' = [b_browser EXCEPT ![t] = None]
               /\ b_page' = [b_page EXCEPT ![t] = <<>>]
               /\ b_calls' = [b_calls EXCEPT ![t] = @ + 1]
               /\ b_pc' = [b_pc EXCEPT ![t] = "page"]
               /\ b_attempt' = [b_attempt EXCEPT ![t] = 0]
               /\ b_cards' = [b_cards EXCEPT ![t] = 0]
          ELSE /\ b_page' = [b_page EXCEPT ![t] = new_page(b_browser[t], b_attempt[t] + 2)]
               /\ b_used' = {u \in b_used : u.obj # b_page[t]}
                                \cup {[obj |-> b_page'[t], by |-> t]}
               /\ b_attempt' = [b_attempt EXCEPT ![t] = @ + 1]
               /\ b_cards' = [b_cards EXCEPT ![t] = 0]
               /\ UNCHANGED <<b_live, b_browser, b_calls, b_pc>>
    /\ UNCHANGED <<b_dattempt, b_dbrowser>>

\* the page loops of scrape_job are over
SessTaskEnd(t) ==
    /\ b_pc[t] = "page"
    /\ b_calls[t] = Len(Pages(t))
    /\ b_pc' = [b_pc EXCEPT ![t] = "returned"]
    /\ UNCHANGED <<b_calls, b_attempt, b_cards, b_dattempt, b_browser, b_page,
                   b_dbrowser, b_live, b_used>>

NextSessions ==
    \/ \E t \in SessionTasks : SessCall(t) /\ UNCHANGED OtherGroupsSessions
    \/ \E t \in SessionTasks : SessCard(t) /\ UNCHANGED OtherGroupsSessions
    \/ \E t \in SessionTasks, ok \in BOOLEAN :
          SessDetail(t, ok) /\ UNCHANGED OtherGroupsSessions
    \/ \E t \in SessionTasks, ok \in BOOLEAN :
          SessAttemptEnd(t, ok) /\ UNCHANGED OtherGroupsSessions
    \/ \E t \in SessionTasks : SessTaskEnd(t) /\ UNCHANGED OtherGroupsSessions

SpecSessions == InitSessions /\ [][NextSessions]_vars

\* ==================================================================== claims
Scraping == {c \in Categories : tasks[c] = "scraping"}
Waiting == {c \in Categories : tasks[c] = "waiting"}

\* C1: at every instant of a run, for every chunk size and cap drawn, the
\* number of scrape_job tasks inside `async with semaphore` is at most
\* max_concurrent_links.
C1_ConcurrencyCap == Cardinality(Scraping) <= max_concurrent_links

\* the cap binds: it is full and a further task of the chunk is kept waiting
C1_Witness ==
    /\ Cardinality(Scraping) = max_concurrent_links
    /\ Waiting # {}

\* C2: a scrape task of chunk i+1 exists only when every task of chunk i has
\* finished, chunk i has been exported, and the upload call for chunk i, if it
\* had files, has returned.
C2_ChunksNeverOverlap ==
    LET chunks == jobs_chunks IN
    \A k \in 2..Len(chunks) :
        (\E c \in SeqToSet(chunks[k]) : tasks[c] # "none") =>
            LET p == k - 1 IN
            /\ \A d \in SeqToSet(chunks[p]) : tasks[d] \in {"finished", "failed"}
            /\ exported[p]
            /\ batches[p] # <<>> => upload_state[p] = "returned"

\* a task of the second chunk is running after the first chunk uploaded files
C2_Witness ==
    \E c \in Categories :
        /\ tasks[c] = "scraping"
        /\ ChunkOf(c) = 2
        /\ batches[1] # <<>>
        /\ upload_state[1] = "returned"

\* C3: when get_card_details returns after a failed attempt followed by a
\* successful one, the list holds exactly the records of the successful
\* attempt: one record per card of the page, in page order.
C3_OnlySuccessfulAttemptKept ==
    (gpc = "returned" /\ g_result = "success" /\ fail_seen) =>
        /\ Len(cards) = n_cards
        /\ \A i \in 1..n_cards : cards[i].card = i

\* the upload call is between its first statement and its return
InUpload == pc \in {"u_lookup", "u_create", "u_file", "u_attempt", "u_sleep", "u_auth"}

\* the per-file observations describe pending_uploads
BatchLive == InUpload \/ pc \in {"cleanup", "raised"}

Uploaded(i) == files[i] \in SeqToSet(uploaded_files)

\* C4 (as claimed): upload_files_with_retry raises only when folder
\* resolution failed.
C4_RaisesOnlyOnFolderFailure ==
    pc = "raised" => (raise_cause = "folder" /\ folder_id = None)

\* C4 (amended): upload_files_with_retry raises only when folder resolution
\* failed or when the re-authentication between two attempts of a file
\* raised; failed upload attempts alone, every attempt of every file
\* included, never make it raise.
C4_RaisesOnlyOnFolderOrReauth ==
    pc = "raised" =>
        \/ /\ raise_cause = "folder"
           /\ folder_id = None
           /\ \A i \in 1..Len(files) : calls[i] = 0
        \/ /\ raise_cause = "reauth"
           /\ fail_file = file_i
           /\ calls[file_i] < upload_retries

\* every attempt of every file of a batch failed, the call returned and the
\* run went on to the next chunk
C4_Witness ==
    /\ chunk_index = 2
    /\ upload_state[1] = "returned"
    /\ Len(batches[1]) = 2
    /\ upload_calls = 2 * upload_retries
    /\ tasks[chunk[1]] # "none"

\* C5: all batches of all runs resolving the same date use one folder id,
\* and at most one folder of that name exists.
C5_RunsConverge ==
    /\ Cardinality(UNION {SeqToSet(r_ids[r]) : r \in Runs}) <= 1
    /\ Cardinality(folders) <= 1

\* C6: create_folder is never invoked while a folder of the date's name
\* exists under the root container.
C6_CreateOnlyWhenAbsent == ~create_on_existing

\* C7: per file of a batch, upload_file is called at most upload_retries
\* times, never again after a call returned an id, and every call after the
\* first comes after one more inter-attempt delay.
C7_UploadAttemptsBounded ==
    BatchLive =>
        \A i \in 1..Len(files) :
            /\ calls[i] <= upload_retries
            /\ calls[i] <= delays[i] + 1
            /\ Uploaded(i) => calls[i] = forced[i] + 1

\* a file used its whole budget, each retry after a delay
C7_Witness ==
    /\ BatchLive
    /\ \E i \in 1..Len(files) :
          calls[i] = upload_retries /\ delays[i] = upload_retries - 1

\* the file loop has left file i
FileDone(i) == i < file_i

\* C8 (as claimed): a file with upload_retries forced failures before a
\* success is reported uploaded; one with upload_retries + 1 is not.
C8_SuccessAfterBudgetFailures ==
    InUpload \/ pc = "cleanup" =>
        \A i \in 1..Len(files) :
            FileDone(i) =>
                /\ forced[i] <= upload_retries => Uploaded(i)
                /\ forced[i] >= upload_retries + 1 => ~Uploaded(i)

\* C8 (amended): a file with at most upload_retries - 1 forced failures
\* before a success is reported uploaded; one with upload_retries forced
\* failures is not, and it got exactly upload_retries attempts.
C8_BudgetCountsAttempts ==
    InUpload \/ pc = "cleanup" =>
        \A i \in 1..Len(files) :
            FileDone(i) /\ i \notin not_found =>
                /\ forced[i] < upload_retries =>
                      Uploaded(i) /\ calls[i] = forced[i] + 1
                /\ forced[i] >= upload_retries =>
                      ~Uploaded(i) /\ calls[i] = upload_retries

\* a file succeeded on its last allowed attempt, another failed the budget
C8_Witness ==
    /\ pc = "cleanup"
    /\ \E i, j \in 1..Len(files) :
          /\ forced[i] = upload_retries - 1 /\ Uploaded(i)
          /\ forced[j] = upload_retries /\ ~Uploaded(j)

\* C9 (as claimed): no upload attempt runs on the session that was in use
\* at the latest failed attempt.
C9_NoAttemptOnFailedSession ==
    pc = "u_attempt" => service # fail_service

\* C9 (amended): no retry of a file runs on the session its previous attempt
\* failed on; the first attempt of the next file is not covered.
C9_RetryOnNewSession ==
    (pc = "u_attempt" /\ fail_file = file_i) => service # fail_service

\* a retry is about to run, after a re-authentication
C9_Witness ==
    /\ pc = "u_attempt"
    /\ attempt > 0
    /\ fail_file = file_i
    /\ service = fail_service + 1

\* C10: a failed setup ends the run at once, without an exception and with
\* no task, folder lookup, folder creation or upload; setup is run once.
C10_SetupFailureAborts ==
    /\ setup_calls <= 1
    /\ setup_outcome \notin {"none", "ok"} =>
          /\ setup_calls = 1
          /\ pc = "done"
          /\ \A c \in Categories : tasks[c] = "none"
          /\ lookup_calls = 0 /\ create_calls = 0 /\ upload_calls = 0
          /\ \A k \in Categories : upload_state[k] = "none"

\* the access test on the root container failed after authenticate succeeded
C10_Witness ==
    /\ setup_outcome = "access_error"
    /\ pc = "done"
    /\ service # None

\* the day of a "%Y-%m-%d %H:%M:%S" value
IsTimestampOf(v, d) == v = Timestamp(d)

\* the days a record scraped during the run can carry
RecordDays == (run_day - MaxAge)..(run_day + MaxMidnights)

\* C11: a record is added to the task's result iff its date_published is
\* present and is a timestamp whose date part is the task's target date;
\* None, the two messages of scrape_publish_date and every other day are
\* dropped.
C11_DateFilterExact ==
    last_card.job # 0 =>
        (last_card.kept <=>
            \E d \in RecordDays :
                /\ IsTimestampOf(last_card.date_published, d)
                /\ job_yesterday[last_card.job] = PyStr(<<DateWord(d)>>))

\* a record of the target day was kept after midnight had passed in the task
C11_Witness ==
    /\ last_card.job # 0
    /\ last_card.kept
    /\ now = run_day + 1
    /\ job_yesterday[last_card.job] = Yesterday(run_day)

\* C12: every task's filter date and the uploader's folder date are the day
\* before the run started.
C12_SingleTargetDate ==
    /\ \A j \in Jobs :
          job_pc[j] # "created" => job_yesterday[j] = Yesterday(run_day)
    /\ clock_pc = "upload" => upload_yesterday = Yesterday(run_day)

\* the upload calls made so far in the run
Batches == {k \in Categories : upload_state[k] # "none"}

\* the ids upload_file was given, over all batches
UsedIds == UNION {used_folder_ids[k] : k \in Categories}

\* C13 (as claimed): over a whole run the folder is looked up once, and all
\* files of all batches are uploaded with one identifier.
C13_ResolvedOncePerRun ==
    /\ lookup_calls <= 1
    /\ Cardinality(UsedIds) <= 1

\* C13 (amended): the folder is resolved once per upload call: a call makes
\* one lookup and at most one creation before its first upload, and every
\* upload_file call of that batch is given the identifier that call
\* resolved, which names a folder of the Drive.
C13_ResolvedOncePerBatch ==
    pc # "idle" =>
        /\ lookup_calls = Cardinality(Batches) - (IF pc = "u_lookup" THEN 1 ELSE 0)
        /\ create_calls <= lookup_calls
        /\ \A k \in Categories :
              /\ Cardinality(used_folder_ids[k]) <= 1
              /\ used_folder_ids[k] \subseteq folders
              /\ used_folder_ids[k] # {} => k \in Batches
              /\ (k = chunk_index /\ InUpload) => used_folder_ids[k] \subseteq {folder_id}

\* two batches of one run resolved the folder, each on its own, and the
\* second one uploaded under another identifier than the first
C13_Witness ==
    /\ lookup_calls = 2
    /\ \E k1, k2 \in Batches :
          /\ k1 < k2
          /\ used_folder_ids[k1] # {}
          /\ used_folder_ids[k2] # {}
          /\ used_folder_ids[k1] # used_folder_ids[k2]

\* the chunk's export is over: every task of chunk k has been awaited
Gathered(k) ==
    \/ k < chunk_index
    \/ k = chunk_index /\ pc \notin {"launch", "launch_sleep", "await"}

\* the `if pending_uploads:` test of chunk k has been passed
PastUploadTest(k) ==
    \/ k < chunk_index
    \/ k = chunk_index /\ pc \notin {"launch", "launch_sleep", "await", "gathered"}

\* C19: whatever failed in one category of a chunk (a page scrape raised, the
\* task raised, or its export failed), every task of the chunk has run to
\* its end once the chunk is gathered, the batch is exactly the categories
\* of the chunk that returned records and were written, in chunk order, and
\* a non-empty batch is handed to upload_files_with_retry.
C19_FailuresIsolated ==
    \A k \in 1..chunk_index :
        Gathered(k) =>
            LET Returned(c) == /\ tasks[c] = "finished"
                               /\ card_data[c] > 0
                               /\ c \notin save_errors
                chunk_k == jobs_chunks[k]
            IN  /\ exported[k]
                /\ \A c \in SeqToSet(chunk_k) : tasks[c] \in {"finished", "failed"}
                /\ batches[k] = SelectSeq(chunk_k, Returned)
                /\ (PastUploadTest(k) /\ batches[k] # <<>>) => k \in Batches

\* a task of a chunk raised, and its sibling's file was uploaded all the same
C19_Witness ==
    \E k \in 1..chunk_index :
        \E c, d \in SeqToSet(jobs_chunks[k]) :
            /\ tasks[c] = "failed"
            /\ task_errors > 0
            /\ d \in SeqToSet(batches[k])
            /\ used_folder_ids[k] # {}
            /\ upload_state[k] = "returned"

\* C14: the successive resolutions of one run, all for the same date, return
\* one folder identifier (so none after the first creates a folder).
C14_ResolutionIdempotent ==
    \A r \in Runs :
        \A i, j \in 1..Len(r_ids[r]) : r_ids[r][i] = r_ids[r][j]

\* an attempt on the listing page is running
InAttempt == gpc \in {"goto", "cards", "detail"}

C15_Bounded ==
    /\ g_attempts <= self_retries
    /\ g_result = "success" => gpc \in {"finally", "returned", "raised"}
    /\ (gpc = "returned" /\ g_result = "exhausted") =>
          /\ g_attempts = self_retries
          /\ fail_seen
          /\ Len(cards) <= self_retries * n_cards

C15_Step ==
    /\ g_result # "none" => g_attempts' = g_attempts
    /\ gpc' = "raised" => gpc \in {"launch", "finally"}
    /\ (InAttempt /\ fail_seen' /\ ~fail_seen) => gpc' = "finally"

\* C15: get_card_details starts at most self.retries attempts, none after an
\* attempt completed or the budget ran out, and a failure inside the attempt
\* body never leaves the call as an exception: after the last failed attempt
\* the call returns the list it holds.  (Only the browser launch and the
\* page cleanup of the finally block, both outside the attempt body, raise.)
C15_AttemptsBoundedAndReturn == []C15_Bounded /\ [][C15_Step]_vars

\* every attempt failed in its body and the call returned an empty list
C15_Witness ==
    /\ gpc = "returned"
    /\ g_result = "exhausted"
    /\ g_attempts = self_retries
    /\ self_retries = MaxRetries
    /\ cards = <<>>

\* C16 (as claimed): an attempt on the listing page uses neither a page nor
\* a browser that a failed attempt was using.
C16_FreshSessionPerRetry ==
    InAttempt => (g_page \notin failed_sessions /\ g_browser \notin failed_sessions)

\* C16 (amended): an attempt on the listing page never uses a page that a
\* failed attempt was using; the browser is the one launched at the start
\* of the call, for every attempt.
C16_FreshPagePerRetry ==
    InAttempt =>
        /\ g_page \notin failed_sessions
        /\ g_page # g_browser
        /\ g_attempts > 1 => g_browser \in failed_sessions

\* a retry is running on its new page, in the browser of the failed attempt
C16_Witness ==
    /\ InAttempt
    /\ g_attempts = 2
    /\ fail_seen
    /\ g_browser \in failed_sessions
    /\ g_page \notin failed_sessions

C17_Step ==
    (gpc = "detail" /\ gpc' # "detail") =>
        /\ gpc' = "cards"
        /\ card_i' = card_i + 1
        /\ g_attempt' = g_attempt /\ g_attempts' = g_attempts
        /\ fail_seen' = fail_seen /\ g_result' = g_result
        /\ \E details \in DetailResults :
              /\ cards' = Append(cards, Record(card_i + 1, details))
              /\ details = "empty" => d_calls' = retries

\* C17: when scrape_more_details ends, however its attempts went, the
\* listing attempt goes on with the next card: it neither fails nor
\* restarts, exactly one record is appended for the card (with empty details
\* only after every detail attempt failed), and the records already in the
\* list are untouched.
C17_DetailFailureConfined == [][C17_Step]_vars

\* one attempt returned a record without details for the first card and a
\* full record for the second, and no listing attempt failed
C17_Witness ==
    /\ gpc = "returned"
    /\ g_result = "success"
    /\ ~fail_seen
    /\ Len(cards) = 2
    /\ cards[1] = Record(1, "empty")
    /\ cards[2] = Record(2, "full")

\* C18: for a scraper configured with retries = R, scrape_more_details makes
\* at most R attempts per card, each in a browser of its own that is not
\* the listing page's browser.
C18_DetailBudgetIsRetries ==
    gpc # "idle" =>
        /\ d_calls <= self_retries
        /\ d_browser # None => d_browser # g_browser
        /\ Cardinality(d_used) = d_calls

RECURSIVE Concat(_)
Concat(ss) == IF ss = <<>> THEN <<>> ELSE Head(ss) \o Concat(Tail(ss))

\* C20: for n entries and chunk size C >= 1 the chunks number ceil(n / C),
\* each has at most C entries and each but the last exactly C, their
\* concatenation is the entry list, and every entry is in exactly one chunk.
C20_ChunksPartition ==
    ch_pc = "built" =>
        LET n == Len(ch_items)
            m == Len(ch_out)
        IN  /\ m = (n + ch_size - 1) \div ch_size
            /\ \A k \in 1..m :
                  /\ Len(ch_out[k]) <= ch_size
                  /\ k < m => Len(ch_out[k]) = ch_size
                  /\ Len(ch_out[k]) >= 1
            /\ Concat(ch_out) = ch_items
            /\ \A x \in SeqToSet(ch_items) :
                  Cardinality({k \in 1..m : x \in SeqToSet(ch_out[k])}) = 1

\* several full chunks followed by a shorter last one
C20_Witness ==
    /\ ch_pc = "built"
    /\ Len(ch_out) >= 3
    /\ Len(ch_out[Len(ch_out)]) < ch_size
    /\ Len(ch_out[Len(ch_out)]) >= 1

\* upload_file returned a file id for the file at position i of the batch
GotId(i) == calls[i] > forced[i]

\* the batch positions, ascending, that satisfy Test
Positions(n, Test(_)) == SelectSeq([i \in 1..n |-> i], Test)

\* C21: when upload_files_with_retry has returned, its result is the batch
\* restricted to the positions for which some upload_file call returned a
\* file id, in batch order; a file that exhausted its attempts or was
\* missing locally is not in it.
C21_ResultIsUploadedFiles ==
    pc \in {"cleanup", "chunk_end"} /\ upload_state[chunk_index] = "returned" =>
        LET got == Positions(Len(files), GotId)
        IN  /\ uploaded_files = [k \in 1..Len(got) |-> files[got[k]]]
            /\ \A i \in 1..Len(files) :
                  i \in not_found \/ ~GotId(i) => ~Uploaded(i)

\* the call returned a batch of which one file was uploaded after another
\* had used up every attempt
C21_Witness ==
    /\ pc = "cleanup"
    /\ \E i, j \in 1..Len(files) :
          /\ i < j
          /\ calls[i] = upload_retries /\ ~GotId(i) /\ ~Uploaded(i)
          /\ GotId(j) /\ Uploaded(j)

\* C22: an attempt that finds its file missing calls nothing, waits for
\* nothing, keeps the Drive session, raises nothing and moves on to the
\* next file of the batch.
C22_Step ==
    pc = "u_attempt" /\ files[file_i] \notin local_files =>
        /\ pc' = "u_file" /\ file_i' = file_i + 1
        /\ UNCHANGED <<upload_calls, calls, delays, service, uploaded_files,
                       raise_cause, upload_state, folder_id>>

C22_MissingFileSkipped == [][C22_Step]_vars

\* a file was found missing before any call, and a later file of the same
\* batch was uploaded
C22_Witness ==
    /\ pc = "cleanup"
    /\ \E i, j \in 1..Len(files) :
          /\ i < j
          /\ i \in not_found /\ calls[i] = 0 /\ delays[i] = 0
          /\ Uploaded(j)

C24_NoExportFileAtEnd ==
    pc \in {"done", "raised"} => local_files = {}

\* C25: a failed folder creation ends the run: the call raises without any
\* upload_file call, and no later chunk is launched or uploaded.
C25_Inv ==
    raise_cause = "folder" =>
        LET chunks == jobs_chunks
        IN  /\ pc = "raised"
            /\ upload_state[chunk_index] = "raised"
            /\ used_folder_ids[chunk_index] = {}
            /\ \A i \in 1..Len(files) : calls[i] = 0
            /\ uploaded_files = <<>>
            /\ \A k \in (chunk_index + 1)..Len(chunks) :
                  /\ upload_state[k] = "none"
                  /\ \A i \in 1..Len(chunks[k]) : tasks[chunks[k][i]] = "none"

C25_Step ==
    pc = "u_create" /\ pc' # pc /\ folders' = folders =>
        pc' = "raised" /\ raise_cause' = "folder"

C25_FolderFailureFatal == []C25_Inv /\ [][C25_Step]_vars

\* folder creation failed in a chunk that is not the last one
C25_Witness ==
    /\ pc = "raised" /\ raise_cause = "folder"
    /\ create_calls > 0
    /\ chunk_index < Len(jobs_chunks)
    /\ files # <<>>

\* C27: an export file exists only for a category with records; the batch
\* of a gathered chunk is the files written for its categories, in chunk
\* order; a chunk with an empty batch starts no upload call, so every folder
\* lookup or creation belongs to a chunk with files.
C27_BatchIsNonEmptyCategories ==
    LET chunks == jobs_chunks
        started == {k \in 1..Len(chunks) : upload_state[k] # "none"}
    IN  /\ \A c \in local_files : card_data[c] > 0
        /\ \A k \in 1..Len(chunks) :
              exported[k] =>
                 /\ batches[k] = Kept(chunks[k],
                                      {c \in Categories :
                                          /\ tasks[c] = "finished"
                                          /\ card_data[c] > 0
                                          /\ c \notin save_errors})
                 /\ batches[k] = <<>> =>
                       upload_state[k] = "none" /\ used_folder_ids[k] = {}
        /\ lookup_calls <= Cardinality(started)
        /\ create_calls <= lookup_calls

\* the run ended after a chunk with one empty and one non-empty category,
\* and a chunk whose categories were all empty
C27_Witness ==
    /\ pc = "done"
    /\ \E k, e \in 1..Len(jobs_chunks) :
          /\ Len(jobs_chunks[k]) = 2 /\ Len(batches[k]) = 1
          /\ upload_state[k] = "returned"
          /\ exported[e] /\ batches[e] = <<>> /\ upload_state[e] = "none"
    /\ lookup_calls = 1

\* page a comes before page b in declared order: templates in list order
\* (template t is entry t of urls), page indices ascending
DeclaredBefore(a, b) == a[1] < b[1] \/ (a[1] = b[1] /\ a[2] < b[2])

DeclaredPages ==
    {<<t, p>> : t \in 1..MaxTemplates, p \in 1..(MaxPageCount + 1)} \cap
    {pg \in (1..Len(sj_urls)) \X (1..(MaxPageCount + 1)) :
        pg[2] <= sj_urls[pg[1]].page_count}

C26_Inv ==
    /\ Cardinality(sj_in_progress) <= 1
    /\ \A a \in 1..Len(sj_started) :
          /\ sj_started[a] \in DeclaredPages
          /\ \A b \in (a + 1)..Len(sj_started) :
                DeclaredBefore(sj_started[a], sj_started[b])
          /\ \A q \in DeclaredPages :
                DeclaredBefore(q, sj_started[a]) => q \in SeqToSet(sj_started)
    /\ sj_pc = "returned" => SeqToSet(sj_started) = DeclaredPages

C26_Step ==
    Len(sj_started') > Len(sj_started) =>
        /\ sj_in_progress = {}
        /\ sj_in_progress' = {sj_started'[Len(sj_started')]}

\* C26: within one scrape_job call the pages are started in declared order
\* without gaps, a page starts only when no page scrape is in progress, and
\* at most one is in progress at any time.
C26_PagesSequentialInOrder == []C26_Inv /\ [][C26_Step]_vars

\* the call returned after scraping several pages of several templates
C26_Witness ==
    /\ sj_pc = "returned"
    /\ Len(sj_urls) >= 2
    /\ \E a, b \in 1..Len(sj_started) :
          /\ a + 1 < b
          /\ sj_started[a][1] = 1 /\ sj_started[a + 1][1] = 1
          /\ sj_started[b][1] = 2

\* the run is over: scrape_all_jobs returned, or the upload step raised
Terminated == pc \in {"done", "raised"}

\* every category was launched and every page of it was attempted, unless
\* str.format rejected its template
AllPagesAttempted ==
    \A c \in Categories :
        /\ tasks[c] \in {"finished", "failed"}
        /\ tasks[c] = "finished" => page_no[c] = Len(Pages(c))

\* C28: whatever pages fail, the run terminates; when setup succeeded it
\* ends by returning after every page of every category of every chunk was
\* attempted, or because the upload step raised.
C28_RunTerminates ==
    /\ <>Terminated
    /\ [](pc = "raised" => raise_cause \in {"folder", "reauth"})
    /\ [](pc = "done" /\ setup_outcome = "ok" => AllPagesAttempted)

\* the run returned after a page scrape raised in one category, another
\* category had to wait for the permit, and every chunk was processed
C28_Witness ==
    /\ pc = "done" /\ setup_outcome = "ok"
    /\ chunk_index = Len(jobs_chunks) /\ chunk_index > 1
    /\ AllPagesAttempted
    /\ \E c \in Categories : tasks[c] = "finished" /\ card_data[c] < page_no[c]

\* scrape_publish_date was called on the text of the record
PublishCalled == p_pc \in {"raised", "record", "filtered"} /\ Truthy(p_relative)

\* the phrase has a magnitude-plus-unit occurrence, and i is the first
FirstOccurrence(i) ==
    /\ i \in 1..Len(p_relative.str)
    /\ Matches(p_relative.str, i)
    /\ \A j \in 1..(i - 1) : ~Matches(p_relative.str, j)

UnitSeconds(u) ==
    IF u = "second" THEN 1 ELSE IF u = "minute" THEN 60
    ELSE IF u = "hour" THEN 3600 ELSE 86400

\* v is a "YYYY-MM-DD HH:MM:SS" string that lies n units u before dt: n
\* times the fixed length of the unit, or n calendar months with the day
\* clipped to the length of the month and the time of day kept
IsNowMinus(v, dt, n, u) ==
    /\ ~v.none /\ Len(v.str) = 2
    /\ v.str[1][1] = "date" /\ v.str[2][1] = "time"
    /\ LET d == v.str[1][2]
           t == v.str[2][2]
           sec == t[1] * 3600 + t[2] * 60 + t[3]
       IN  /\ d[1] >= 1 /\ d[2] \in 1..12 /\ d[3] \in 1..days_in_month(d[1], d[2])
           /\ t[1] \in 0..23 /\ t[2] \in 0..59 /\ t[3] \in 0..59
           /\ IF u = "month"
                 THEN /\ (dt[1] * 12 + dt[2]) - (d[1] * 12 + d[2]) = n
                      /\ d[3] = Min(dt[3], days_in_month(d[1], d[2]))
                      /\ sec = dt[4]
                 ELSE /\ (dt[4] - sec) % UnitSeconds(u) = 0
                      /\ (ymd2ord(dt[1], dt[2], dt[3]) - ymd2ord(d[1], d[2], d[3]))
                             * (86400 \div UnitSeconds(u))
                         + ((dt[4] - sec) \div UnitSeconds(u)) = n

\* C29 (as claimed): for every phrase with a magnitude-plus-unit occurrence
\* scrape_publish_date returns, formatted YYYY-MM-DD HH:MM:SS, the current
\* time minus the magnitude of the first occurrence times its unit.
C29_ResolvesEveryMatch ==
    PublishCalled =>
        \A i \in 1..Len(p_relative.str) :
            FirstOccurrence(i) =>
                /\ p_pc # "raised"
                /\ IsNowMinus(p_result, p_now, p_relative.str[i].n,
                              p_relative.str[i + 1].text.unit)

\* C30: a phrase without a magnitude-plus-unit occurrence makes
\* scrape_publish_date return its sentinel instead of raising, and a record
\* whose date_published is that sentinel, or None, passes through the filter
\* of scrape_job without an error and is dropped by it.
C30_UnparseableIsDropped ==
    /\ PublishCalled /\ (\A i \in 1..Len(p_relative.str) : ~Matches(p_relative.str, i)) =>
          /\ p_pc # "raised"
          /\ p_result = InvalidRelativeTime
    /\ p_pc \in {"record", "filtered"} /\ ~Truthy(p_relative) => p_result = PyNone
    /\ p_pc = "filtered" /\ p_result \in {InvalidRelativeTime, PyNone} => ~p_kept

\* a number glued to its unit was not matched: the record carried the
\* sentinel into the filter and was dropped
C30_Witness ==
    /\ p_pc = "filtered"
    /\ Truthy(p_relative)
    /\ \E i \in 1..(Len(p_relative.str) - 1) :
          /\ p_relative.str[i].kind = "num"
          /\ p_relative.str[i + 1].kind = "unit"
          /\ ~p_relative.str[i + 1].sep
    /\ p_result = InvalidRelativeTime
    /\ ~p_kept

\* ---------------------------------------------------------------- C32
\* C32: the pacing delay begins only when the processing of a chunk that is
\* not the last has ended, and the next chunk starts launching only out of
\* that delay; the end of a chunk's processing leads to the delay when a
\* chunk follows and straight to the end of the run when none does.
C32_Step ==
    LET n == Len(jobs_chunks_of(chunk_size)) IN
    /\ (pc' = "chunk_sleep" /\ pc # "chunk_sleep") =>
          (pc = "chunk_end" /\ chunk_index < n)
    /\ (chunk_index >= 1 /\ chunk_index' # chunk_index) =>
          (pc = "chunk_sleep" /\ pc' = "launch" /\ idx' = 0
             /\ chunk_index' = chunk_index + 1)
    /\ (pc = "chunk_end" /\ pc' # pc) =>
          pc' = (IF chunk_index < n THEN "chunk_sleep" ELSE "done")
    /\ (pc' = "done" /\ pc = "chunk_end") => chunk_index = n

C32_PacingBetweenChunks == [][C32_Step]_vars

\* the last chunk has been processed after an earlier one was paced, and the
\* run has ended
C32_Witness ==
    /\ pc = "done"
    /\ chunk_index = Len(jobs_chunks_of(chunk_size))
    /\ chunk_index > 1
    /\ exported[chunk_index]

\* ---------------------------------------------------------------- C33
\* every task of the current chunk has been awaited
ChunkCompleted == pc \notin {"setup", "launch", "launch_sleep", "await"}

\* C33: once the semaphore exists, its free permits plus the tasks inside
\* `async with semaphore` make max_concurrent_links, and when the tasks of a
\* chunk have all been awaited every permit is free again.
C33_PermitsConserved ==
    setup_outcome = "ok" =>
       /\ semaphore >= 0
       /\ semaphore + Cardinality(Scraping) = max_concurrent_links
       /\ ChunkCompleted => semaphore = max_concurrent_links

\* a chunk has completed in which one task left the body by an exception and
\* another by its return
C33_Witness ==
    /\ pc = "gathered"
    /\ \E c \in SeqToSet(chunk) : tasks[c] = "failed"
    /\ \E c \in SeqToSet(chunk) : tasks[c] = "finished"
    /\ semaphore = max_concurrent_links

\* ---------------------------------------------------------------- C34
\* C34: when authenticate() raises in the re-authentication after a failed
\* attempt, the upload call raises and the run ends there: the failing file
\* got no further attempt, no later file of the batch was attempted or
\* uploaded, every export file of the chunk is still on local storage, and
\* no later chunk was started.
C34_ReauthFailureFatal ==
    raise_cause = "reauth" =>
       /\ pc = "raised"
       /\ upload_state[chunk_index] = "raised"
       /\ file_i \in 1..Len(files)
       /\ calls[file_i] = attempt + 1
       /\ attempt < upload_retries - 1
       /\ \A i \in (file_i + 1)..Len(files) : calls[i] = 0
       /\ \A i \in file_i..Len(files) : files[i] \notin SeqToSet(uploaded_files)
       /\ SeqToSet(pending_uploads) \subseteq local_files
       /\ \A k \in Categories :
             k > chunk_index => (upload_state[k] = "none" /\ ~exported[k])
       /\ LET chunks == jobs_chunks_of(chunk_size) IN
          \A k \in 1..Len(chunks) :
             k > chunk_index => \A c \in SeqToSet(chunks[k]) : tasks[c] = "none"

\* the re-authentication after the first failed attempt of the first file of
\* a batch of two raised, and a chunk was still to come
C34_Witness ==
    /\ raise_cause = "reauth"
    /\ file_i = 1 /\ attempt = 0
    /\ Len(files) = 2
    /\ chunk_index < Len(jobs_chunks_of(chunk_size))

\* ---------------------------------------------------------------- C36
\* scrape tasks that were created and have not ended yet
Unfinished == {c \in Categories : tasks[c] \in {"created", "waiting", "scraping"}}

\* C36: at no time are more than chunk_size scrape tasks created and not yet
\* ended, and when chunk_size <= max_concurrent_links no task ever waits for
\* a permit of the semaphore.
C36_TasksBoundedByChunk ==
    /\ Cardinality(Unfinished) <= chunk_size
    /\ chunk_size <= max_concurrent_links =>
          \A c \in Categories : tasks[c] # "waiting"

\* a full chunk of MaxChunkSize tasks is inside the semaphore body at once
C36_Witness ==
    /\ chunk_size = MaxChunkSize
    /\ chunk_size <= max_concurrent_links
    /\ Cardinality(Unfinished) = chunk_size
    /\ \A c \in Unfinished : tasks[c] = "scraping"

\* ---------------------------------------------------------------- C35
\* C35: the export paths of the categories of a chunk differ from each
\* other: no path occurs twice in pending_uploads, and every category that
\* was saved still has its own file (none was overwritten by another's).
C35_DistinctExportPaths ==
    /\ Distinct(e_pending)
    /\ Cardinality(e_disk) = Len(e_pending)

\* ---------------------------------------------------------------- C37
\* category scrapes that have started and have not ended
NormalInProgress == {c \in Automotives : a_tasks[c] \in {"running", "suspended"}}

\* no two category scrapes are ever in progress together
NeverTwoInProgress == Cardinality(NormalInProgress) <= 1

\* C37: every category has its task before the first task is awaited, the
\* one upload call starts only when every task has been awaited, and once
\* the launch loop is running the run comes to a state in which the scrapes
\* of all a_n categories are in progress at once.
C37_AllInProgressAtOnce ==
    /\ [](a_pc \in {"await", "gathered", "raised"}
            => \A c \in Automotives : a_tasks[c] # "none")
    /\ [](a_uploads > 0 => a_pc = "done" /\ a_idx = a_n)
    /\ (a_pc = "launch" ~> Cardinality(NormalInProgress) = a_n)

\* ---------------------------------------------------------------- C38
UploadedNames == [k \in 1..Len(sf_uploaded) |-> sf_uploaded[k].file]

\* the call is in the file loop or has left it
SaveInLoop == sf_pc \in {"upload", "returned"} \/ (sf_pc = "raised" /\ sf_i > 0)

C38_Inv ==
    \* one lookup, and a creation only after the lookup returned nothing
    /\ sf_lookups <= 1 /\ sf_creates <= sf_lookups
    /\ sf_pc = "create" => sf_folder_id = None
    \* the files on the Drive are the files of the list up to the current
    \* one, in list order, each under the folder the call resolved
    /\ SaveInLoop =>
          /\ UploadedNames = SubSeq(sf_files, 1, sf_i - 1)
          /\ \A k \in 1..Len(sf_uploaded) : sf_uploaded[k].parent = sf_folder_id
    /\ ~SaveInLoop => sf_uploaded = <<>>
    \* after the failure the failing file and every later one are not there
    /\ (sf_pc = "raised" /\ sf_i > 0) =>
          \A j \in sf_i..Len(sf_files) : sf_files[j] \notin SeqToSet(UploadedNames)
    /\ sf_pc = "returned" => UploadedNames = sf_files

C38_Step ==
    /\ sf_creates' # sf_creates => (sf_pc = "create" /\ sf_folder_id = None)
    /\ sf_pc = "raised" => UNCHANGED save_vars

\* C38: save_files looks the folder up once and creates it only when the
\* lookup returned nothing; it uploads the files in list order and stops at
\* the first exception, which it re-raises: the files before the failing one
\* are on the Drive, the failing one and the later ones are not.
C38_SaveFilesStopsAtFirstFailure == []C38_Inv /\ [][C38_Step]_vars

\* the second file of a list of two failed after the folder was created
C38_Witness ==
    /\ sf_pc = "raised"
    /\ sf_i = 2 /\ Len(sf_files) = 2
    /\ Len(sf_uploaded) = 1
    /\ sf_creates = 1

\* ---------------------------------------------------------------- C31
\* the browsers task t is holding, and the one that launched browser id
Holding(t) == {b_browser[t], b_dbrowser[t]} \ {None}
Creators(id) == {o.creator : o \in {x \in b_live : x.id = id}}

\* C31: every open browser was launched by exactly one task's own call, a
\* task holds only browsers it launched itself, and every browser or page
\* that is in use has been used by the task that launched it and by no
\* other task.
C31_SessionsNotShared ==
    /\ \A id \in LiveIds : Cardinality(Creators(id)) = 1
    /\ \A t \in SessionTasks : \A id \in Holding(t) : Creators(id) = {t}
    /\ \A t1, t2 \in SessionTasks : t1 # t2 => Holding(t1) \cap Holding(t2) = {}
    /\ \A u \in b_used : Creators(u.obj[1]) = {u.by}

\* every task is inside a scrape_more_details attempt at the same time, each
\* with its listing browser and its detail browser open
C31_Witness ==
    /\ \A t \in SessionTasks : b_pc[t] = "detail"
    /\ Cardinality(LiveIds) = 2 * Cardinality(SessionTasks)
    /\ \E u \in b_used : u.by = 1 /\ u.obj[2] > 0
=============================================================================
